---------------------------- MODULE Spec2Model ----------------------------
(***************************************************************************)
(* A model of snbatch's orchestration engine: the progress poll loop       *)
(* (src/api/cicd.js, pollProgress / isProgressSuccess) and the install     *)
(* executor (src/commands/install.js, runSequentialInstall,                *)
(* runBatchInstall, installCommand).                                       *)
(*                                                                         *)
(* JavaScript values are records [t, n, s]: t is the type tag, n the       *)
(* number, s the string as a sequence of character codes, so that          *)
(* toLowerCase and parseInt are computed and not assumed.                  *)
(* Times are milliseconds.  elapsed is Date.now() measured from the start  *)
(* of the running pollProgress call, so that "Date.now() < deadline" is    *)
(* "elapsed < maxPollDuration".                                            *)
(***************************************************************************)
EXTENDS Integers, Sequences, FiniteSets, TLC

VARIABLES
    opts,             \* CLI options: continueOnError, stopOnError, batch, concurrency
    isTTY,            \* process.stderr.isTTY
    config,           \* retries, backoffBase, pollInterval, maxPollDuration
    packages,         \* the items to install, in the given order (scopes)
    pc,               \* position of installCommand / its executor
    i,                \* runSequentialInstall: loop index, 1-based
    succeeded,        \* count of succeeded items
    failed,           \* count of failed items
    failedPackages,   \* sequence of [scope, error]
    rollbackVersions, \* sequence of [scope, version]
    curRollback,      \* rollbackVersion returned by the current item's submission
    warned,           \* the concurrency warning was printed
    prompts,          \* number of "Continue with remaining" prompts issued
    history,          \* the history entry appended, or NoEntry
    exitCode,         \* process exit status, -1 while running
    submitted,        \* server side: install requests received, in order
    serverOutcome,    \* server side (batch): scope -> "ok" | "fail"
    resultsId,        \* batch: links.results.id was returned
    ppc,              \* position of pollProgress
    elapsed,          \* Date.now() - start of pollProgress
    interval,         \* pollProgress: let interval
    consecutiveErrors,\* pollProgress: let consecutiveErrors
    resp,             \* the answer to the status check being handled
    lastData,         \* consumer: the last snapshot yielded
    pollErr,          \* the error pollProgress threw
    popts,            \* pollProgress: progressId and the destructured opts
    inflight,         \* jobs submitted whose poll has not ended
    wpc,              \* position of withRetry
    wopts,            \* withRetry: the destructured opts
    attempt,          \* withRetry: let attempt
    lastError,        \* withRetry: let lastError
    fnCalls,          \* number of invocations of the wrapped operation
    waits,            \* the sleep(waitMs) calls made, in order
    wresult,          \* what withRetry returned or threw
    tpc,              \* position of the batch install / rollback handler
    tool,             \* which handler runs: CLI or MCP, install or rollback
    rollbackToken,    \* the raw rollback token the handler holds
    debug,            \* opts.debug
    emitted,          \* everything written to history, log, console, tool result
    rpc,              \* position of the reconcilePackages call
    manifestPackages, \* reconcilePackages: the source items
    targetApps,       \* reconcilePackages: the apps installed on the target
    verdicts,         \* reconcilePackages: const results, as returned
    vpc,              \* position of the upgradeType call
    vfrom,            \* upgradeType: from
    vto,              \* upgradeType: to
    vtype,            \* upgradeType: the value returned
    challenges,       \* confirmations.js: const challenges = new Map()
    now,              \* Date.now() as the confirmation store reads it
    issued,           \* number of randomUUID() tokens handed out
    handedOut,        \* token -> the host and operation it was issued for, and when
    validCount,       \* token -> how often verifyConfirmation returned valid for it
    lastCall,         \* the last call made to the confirmation store or a tool
    bpc,              \* position of the two buildManifest calls
    supplied,         \* the item lists handed to buildManifest, one per call
    manifests,        \* the manifests built, in call order
    mpc,              \* position of the readManifest call
    parsedPlan,       \* readManifest: const parsed = JSON.parse(raw)
    loadOutcome,      \* readManifest: the value returned or the error thrown
    installedOnInstance, \* scopes whose manifest target version the instance has
    runs,             \* number of times the install command was started
    fetchLog,         \* runBatchInstall: lastData, the results fetch and const results
    qpc,              \* position of the install request under construction
    qitem,            \* the manifest item being installed
    request           \* the install request sent for it

vars == << opts, isTTY, config, packages, pc, i, succeeded, failed,
           failedPackages, rollbackVersions, curRollback, warned, prompts,
           history, exitCode, submitted, serverOutcome, resultsId,
           ppc, elapsed, interval, consecutiveErrors, resp, lastData, pollErr,
           popts, inflight,
           wpc, wopts, attempt, lastError, fnCalls, waits, wresult,
           tpc, tool, rollbackToken, debug, emitted,
           rpc, manifestPackages, targetApps, verdicts,
           vpc, vfrom, vto, vtype,
           challenges, now, issued, handedOut, validCount, lastCall,
           bpc, supplied, manifests, mpc, parsedPlan, loadOutcome,
           installedOnInstance, runs, fetchLog, qpc, qitem, request >>

execVars == << opts, isTTY, config, packages, pc, i, succeeded, failed,
               failedPackages, rollbackVersions, curRollback, warned, prompts,
               history, exitCode, submitted, serverOutcome, resultsId >>

pollVars == << ppc, elapsed, interval, consecutiveErrors, resp, lastData,
               pollErr, popts, inflight >>

retryVars == << wpc, wopts, attempt, lastError, fnCalls, waits, wresult >>

tokenVars == << tpc, tool, rollbackToken, debug, emitted >>

\* the frames of the functions that are also exercised on their own
reconVars == << rpc, manifestPackages, targetApps, verdicts >>

versionVars == << vpc, vfrom, vto, vtype >>

confirmVars == << challenges, now, issued, handedOut, validCount, lastCall >>

manifestVars == << bpc, supplied, manifests, mpc, parsedPlan, loadOutcome >>

rerunVars == << installedOnInstance, runs >>

fetchVars == << fetchLog >>

requestVars == << qpc, qitem, request >>

coreVars == << execVars, pollVars, retryVars, tokenVars, reconVars >>

utilVars == << versionVars, confirmVars, manifestVars, rerunVars, fetchVars, requestVars >>

libVars == << retryVars, tokenVars, reconVars, utilVars >>

-----------------------------------------------------------------------------
(* JavaScript values *)

JNum(n) == [t |-> "number", n |-> n, s |-> << >>]
JStr(s) == [t |-> "string", n |-> 0, s |-> s]
JNull == [t |-> "null", n |-> 0, s |-> << >>]
NaN == [t |-> "NaN", n |-> 0, s |-> << >>]

\* a ?? b
Coalesce(a, b) == IF a.t = "null" THEN b ELSE a

\* typeof v === 'number' (NaN is a number)
IsNumber(v) == v.t \in {"number", "NaN"}

\* v === k for a number literal k
StrictEqNum(v, k) == v.t = "number" /\ v.n = k

\* v === str for a string literal
StrictEqStr(v, str) == v.t = "string" /\ v.s = str

\* String.prototype.toLowerCase on the ASCII letters
ToLowerCase(s) == [k \in DOMAIN s |-> IF s[k] \in 65..90 THEN s[k] + 32 ELSE s[k]]

IsDigit(c) == c \in 48..57
IsSpace(c) == c \in {9, 10, 11, 12, 13, 32}

RECURSIVE SkipSpace(_)
SkipSpace(s) == IF s # << >> /\ IsSpace(Head(s)) THEN SkipSpace(Tail(s)) ELSE s

RECURSIVE DigitsValue(_, _)
\* value of the longest prefix of decimal digits of s, acc the value so far
DigitsValue(s, acc) ==
    IF s # << >> /\ IsDigit(Head(s))
    THEN DigitsValue(Tail(s), acc * 10 + (Head(s) - 48))
    ELSE acc

RECURSIVE DecimalDigits(_)
\* the decimal digits of a natural number
DecimalDigits(n) ==
    IF n < 10 THEN << 48 + n >> ELSE Append(DecimalDigits(n \div 10), 48 + (n % 10))

\* String(v) for the values that occur
JsString(v) ==
    CASE v.t = "string" -> v.s
      [] v.t = "number" -> IF v.n < 0 THEN << 45 >> \o DecimalDigits(-v.n)
                           ELSE DecimalDigits(v.n)
      [] v.t = "NaN" -> << 78, 97, 78 >>
      [] OTHER -> << 110, 117, 108, 108 >>

\* parseInt(v, 10): leading white space, an optional sign, then the longest
\* run of digits; NaN when there is none
ParseInt(v) ==
    LET str == SkipSpace(JsString(v))
        neg == str # << >> /\ Head(str) = 45
        body == IF str # << >> /\ Head(str) \in {43, 45} THEN Tail(str) ELSE str
    IN  IF v.t = "NaN" \/ body = << >> \/ ~IsDigit(Head(body))
        THEN NaN
        ELSE JNum(IF neg THEN -DigitsValue(body, 0) ELSE DigitsValue(body, 0))

\* the string literals of the source, as character codes
sSuccess == << 115, 117, 99, 99, 101, 115, 115 >>
sComplete == << 99, 111, 109, 112, 108, 101, 116, 101 >>
sFailed == << 102, 97, 105, 108, 101, 100 >>
\* strings a server may send
sSUCCESS == << 83, 85, 67, 67, 69, 83, 83 >>
sCompleteCap == << 67, 111, 109, 112, 108, 101, 116, 101 >>
sFailedCap == << 70, 97, 105, 108, 101, 100 >>
sRunning == << 114, 117, 110, 110, 105, 110, 103 >>
sPending == << 112, 101, 110, 100, 105, 110, 103 >>
sTwo == << 50 >>
sThree == << 51 >>
sOne == << 49 >>
sTen == << 49, 48 >>
sZero == << 48 >>
sMinusFive == << 45, 53 >>
sGarbage == << 103, 97, 114, 98, 97, 103, 101 >>
sHttpDate == << 87, 101, 100, 44, 32, 50, 49, 32, 79, 99, 116 >>
sEmpty == << >>
sInstallationFailed == << 73, 110, 115, 116, 97, 108, 108, 97, 116, 105, 111, 110, 32, 102, 97, 105, 108, 101, 100 >>
sFailedMsg == << 70, 97, 105, 108, 101, 100 >>

-----------------------------------------------------------------------------
(* The progress API's answers *)

\* a progress payload (resp.data.result ?? resp.data)
Data(status, state, pc1, pc2, pkgs, msg) ==
    [status |-> status, state |-> state, percentComplete |-> pc1,
     percent_complete |-> pc2, packages |-> pkgs, status_message |-> msg]

NoData == [none |-> TRUE]
NoResp == [kind |-> "none"]
NoError == [kind |-> "none"]

OkResp(data) == [kind |-> "ok", data |-> data, status |-> 200, retryAfter |-> JNull]
\* an axios error: err.response.status (0: no response at all) and the
\* retry-after header (JNull: absent)
ErrResp(status, retryAfter) ==
    [kind |-> "err", data |-> NoData, status |-> status, retryAfter |-> retryAfter]

-----------------------------------------------------------------------------
(* src/api/cicd.js *)

FallbackWaitMs == 30000
DefaultPollInterval == 10000
DefaultMaxPollDuration == 7200000
DefaultRetries == 3
DefaultBackoffBase == 2000

Pow2(k) == 2 ^ k

\* const { pollInterval = 10_000, ... } = opts; 0 stands for undefined
PollOpts(o) ==
    [progressId |-> o.progressId,
     pollInterval |-> IF o.pollInterval = 0 THEN DefaultPollInterval ELSE o.pollInterval,
     maxPollDuration |-> IF o.maxPollDuration = 0 THEN DefaultMaxPollDuration
                         ELSE o.maxPollDuration,
     retries |-> IF o.retries = -1 THEN DefaultRetries ELSE o.retries,
     backoffBase |-> IF o.backoffBase = 0 THEN DefaultBackoffBase ELSE o.backoffBase]

\* data.percentComplete ?? data.percent_complete ?? 0
Pct(data) == Coalesce(Coalesce(data.percentComplete, data.percent_complete), JNum(0))

\* data.status ?? data.state
RawStatus(data) == Coalesce(data.status, data.state)

\* typeof raw === 'number' ? raw : parseInt(raw, 10)
StatusNum(raw) == IF IsNumber(raw) THEN raw ELSE ParseInt(raw)
\* faulty variant: the status string is compared as sent
StatusStrAsSent(raw) == JsString(Coalesce(raw, JStr(<< >>)))

\* String(raw ?? '').toLowerCase()
StatusStr(raw) == ToLowerCase(JsString(Coalesce(raw, JStr(<< >>))))

\* faulty variant: a snapshot at 100 percent counts as a success
isProgressSuccessAtFull(data) ==
    data # NoData /\ Pct(data).t = "number" /\ Pct(data).n >= 100

isProgressSuccess(data) ==
    IF data = NoData THEN FALSE
    ELSE LET raw == RawStatus(data)
             statusNum == StatusNum(raw)
             statusStr == StatusStr(raw)
         IN  IF StrictEqNum(statusNum, 2) THEN TRUE
             ELSE IF StrictEqNum(statusNum, 3) THEN FALSE
             ELSE statusStr = sSuccess \/ statusStr = sComplete
\* faulty variant: the percent-based return is missing
PollTerminalNoPercent(data) ==
    LET raw == Coalesce(data.status, data.state)
        statusNum == IF IsNumber(raw) THEN raw ELSE ParseInt(raw)
        statusStr == ToLowerCase(JsString(Coalesce(raw, JStr(<< >>))))
    IN  \/ StrictEqNum(statusNum, 2) \/ StrictEqNum(statusNum, 3)
        \/ statusStr = sComplete \/ statusStr = sSuccess \/ statusStr = sFailed

\* the three returns after the yield
PollTerminal(data) ==
    LET pct == Pct(data)
        raw == RawStatus(data)
        statusNum == StatusNum(raw)
        statusStr == StatusStr(raw)
    IN  \/ StrictEqNum(statusNum, 2) \/ StrictEqNum(statusNum, 3)
        \/ statusStr = sComplete \/ statusStr = sSuccess \/ statusStr = sFailed
        \/ (pct.t = "number" /\ pct.n >= 100)
\* faulty variant: any present hint is trusted (NaN or 0 ms waits included)
RetryAfterWaitUnchecked(retryAfter) ==
    LET parsed == ParseInt(retryAfter)
    IN  IF retryAfter.t = "string" /\ retryAfter.s # << >>
        THEN (IF parsed.t = "number" THEN parsed.n * 1000 ELSE 0)
        ELSE FallbackWaitMs

\* faulty variant: no wait after a 429
RetryAfterWaitNone(retryAfter) == 0

\* the wait after a 429
RetryAfterWait(retryAfter) ==
    LET parsed == ParseInt(retryAfter)
    IN  IF parsed.t = "number" /\ parsed.n > 0 THEN parsed.n * 1000 ELSE FallbackWaitMs

IsRateLimit(r) == r.status = 429

IsTransient(r) == r.status \in {500, 502, 503, 504}

\* faulty variant: one transient error more than the ceiling is absorbed
MayRetryTransientInclusive(r) == IsTransient(r) /\ consecutiveErrors <= popts.retries

\* [500, 502, 503, 504].includes(status) && consecutiveErrors < retries
MayRetryTransient(r) == IsTransient(r) /\ consecutiveErrors < popts.retries
\* faulty variant: one more cycle at the deadline itself
AtOrBeforeDeadline == elapsed <= popts.maxPollDuration

\* while (Date.now() < deadline)
BeforeDeadline == elapsed < popts.maxPollDuration

\* new Error(`Polling timed out after ... The operation may still be running server-side.`)
TimeoutError ==
    [kind |-> "timeout", status |-> 0, afterMs |-> popts.maxPollDuration,
     note |-> "The operation may still be running server-side."]

\* throw err: the axios error as caught
HttpError(r) == [kind |-> "http", status |-> r.status, afterMs |-> 0, note |-> ""]

\* pollProgress(client, progressId, opts) is called: the generator's locals
PollStart(o) ==
    /\ popts' = PollOpts(o)
    /\ ppc' = "head"
    /\ elapsed' = 0
    /\ interval' = PollOpts(o).pollInterval
    /\ consecutiveErrors' = 0
    /\ resp' = NoResp
    /\ lastData' = NoData
    /\ pollErr' = NoError
    /\ inflight' = inflight \cup {o.progressId}

\* the generator and the consumer's lastData go out of scope
PollDiscard ==
    /\ ppc' = "idle"
    /\ elapsed' = 0
    /\ interval' = 0
    /\ consecutiveErrors' = 0
    /\ resp' = NoResp
    /\ lastData' = NoData
    /\ pollErr' = NoError
    /\ UNCHANGED << popts, inflight >>

\* the loop condition; the status check is issued, or the timeout thrown
PollLoopHead ==
    /\ ppc = "head"
    /\ IF BeforeDeadline
       THEN ppc' = "inflight" /\ pollErr' = pollErr /\ inflight' = inflight
       ELSE ppc' = "threw" /\ pollErr' = TimeoutError
            /\ inflight' = inflight \ {popts.progressId}
    /\ UNCHANGED << elapsed, interval, consecutiveErrors, resp, lastData, popts >>
    /\ UNCHANGED execVars
    /\ UNCHANGED libVars

\* the status check is answered after some latency
PollReceive(Responses, Latencies) ==
    /\ ppc = "inflight"
    /\ \E r \in Responses, lat \in Latencies :
          /\ resp' = r
          /\ elapsed' = elapsed + lat
    /\ ppc' = "handling"
    /\ UNCHANGED << interval, consecutiveErrors, lastData, pollErr, popts, inflight >>
    /\ UNCHANGED execVars
    /\ UNCHANGED libVars

\* try { ... consecutiveErrors = 0 } catch (err) { ... } then yield data:
\* the consumer's loop body stores the snapshot
PollHandle ==
    /\ ppc = "handling"
    /\ resp' = NoResp
    /\ IF resp.kind = "ok"
       THEN /\ consecutiveErrors' = 0
            /\ lastData' = resp.data
            /\ ppc' = "yielded"
            /\ UNCHANGED << elapsed, interval, pollErr, inflight >>
       ELSE IF IsRateLimit(resp)
       THEN /\ interval' = RetryAfterWait(resp.retryAfter)
            /\ elapsed' = elapsed + RetryAfterWait(resp.retryAfter)
            /\ ppc' = "head"
            /\ UNCHANGED << consecutiveErrors, lastData, pollErr, inflight >>
       ELSE IF MayRetryTransient(resp)
       THEN /\ consecutiveErrors' = consecutiveErrors + 1
            /\ elapsed' = elapsed + popts.backoffBase * Pow2(consecutiveErrors)
            /\ ppc' = "head"
            /\ UNCHANGED << interval, lastData, pollErr, inflight >>
       ELSE /\ pollErr' = HttpError(resp)
            /\ ppc' = "threw"
            /\ inflight' = inflight \ {popts.progressId}
            /\ UNCHANGED << elapsed, interval, consecutiveErrors, lastData >>
    /\ UNCHANGED popts
    /\ UNCHANGED execVars
    /\ UNCHANGED libVars

\* the generator is resumed after the yield: the terminal tests, else the
\* interval is reset and slept
PollResume ==
    /\ ppc = "yielded"
    /\ IF PollTerminal(lastData)
       THEN /\ ppc' = "returned"
            /\ inflight' = inflight \ {popts.progressId}
            /\ UNCHANGED << elapsed, interval >>
       ELSE /\ interval' = popts.pollInterval
            /\ elapsed' = elapsed + popts.pollInterval
            /\ ppc' = "head"
            /\ inflight' = inflight
    /\ UNCHANGED << consecutiveErrors, resp, lastData, pollErr, popts >>
    /\ UNCHANGED execVars
    /\ UNCHANGED libVars

-----------------------------------------------------------------------------
(* src/utils/retry.js *)

\* const RETRYABLE_STATUSES = new Set([429, 500, 502, 503, 504])
RETRYABLE_STATUSES == {429, 500, 502, 503, 504}

\* const { retries = 3, backoffBase = 2000 } = opts; -1 and 0 stand for undefined
WithRetryOpts(o) ==
    [retries |-> IF o.retries = -1 THEN DefaultRetries ELSE o.retries,
     backoffBase |-> IF o.backoffBase = 0 THEN DefaultBackoffBase ELSE o.backoffBase]

\* the truthiness of a header value: undefined and '' are falsy
Truthy(v) == v.t = "string" /\ v.s # << >>

\* x * 1000 for a parseInt result
TimesThousand(v) == IF v.t = "number" THEN JNum(v.n * 1000) ELSE NaN
\* faulty variant: 404 counted among the retryable statuses
IsRetryableOrNotFound(status) == status \in RETRYABLE_STATUSES \cup {404}

\* RETRYABLE_STATUSES.has(status); status 0 stands for undefined
IsRetryable(status) == status \in RETRYABLE_STATUSES
\* faulty variant: the break comes one attempt late
IsLastAttemptLate == attempt = wopts.retries + 1

\* if (attempt === retries) break
IsLastAttempt == attempt = wopts.retries

\* retryAfter ? parseInt(retryAfter, 10) * 1000 : 30_000
RateLimitWait(retryAfter) ==
    IF Truthy(retryAfter) THEN TimesThousand(ParseInt(retryAfter)) ELSE JNum(FallbackWaitMs)

\* faulty variant: the base is not doubled
BackoffWaitFlat == JNum(wopts.backoffBase)

\* backoffBase * Math.pow(2, attempt)
BackoffWait == JNum(wopts.backoffBase * Pow2(attempt))

\* let waitMs
WaitMs(err) == IF err.status = 429 THEN RateLimitWait(err.retryAfter) ELSE BackoffWait

NoResult == [kind |-> "none"]
Returned(v) == [kind |-> "returned", value |-> v]
Thrown(e) == [kind |-> "thrown", value |-> e]

\* one pass of the for loop: the loop condition, await fn(), and the catch
\* block with its sleep; after the loop, throw lastError
WithRetryAttempt(Outcomes) ==
    /\ wpc = "loop"
    /\ IF attempt <= wopts.retries
       THEN /\ fnCalls' = fnCalls + 1
            /\ \E r \in Outcomes :
                 IF r.kind = "ok"
                 THEN /\ wresult' = Returned(r)
                      /\ wpc' = "returned"
                      /\ UNCHANGED << attempt, lastError, waits >>
                 ELSE /\ lastError' = r
                      /\ IF ~IsRetryable(r.status)
                         THEN /\ wresult' = Thrown(r)
                              /\ wpc' = "threw"
                              /\ UNCHANGED << attempt, waits >>
                         ELSE IF IsLastAttempt
                         THEN /\ wresult' = Thrown(r)
                              /\ wpc' = "threw"
                              /\ UNCHANGED << attempt, waits >>
                         ELSE /\ waits' = Append(waits, WaitMs(r))
                              /\ attempt' = attempt + 1
                              /\ wpc' = "loop"
                              /\ wresult' = wresult
       ELSE /\ wresult' = Thrown(lastError)
            /\ wpc' = "threw"
            /\ UNCHANGED << attempt, lastError, fnCalls, waits >>
    /\ UNCHANGED wopts
    /\ UNCHANGED execVars
    /\ UNCHANGED pollVars
    /\ UNCHANGED << tokenVars, reconVars >>
    /\ UNCHANGED utilVars

-----------------------------------------------------------------------------
(* src/utils/logger.js, src/utils/crypto.js: what is written about a token   *)

\* s.includes(p)
Includes(s, p) ==
    \E k \in 0..(Len(s) - Len(p)) : SubSeq(s, k + 1, k + Len(p)) = p

\* s.slice(-4)
SliceLast4(s) == IF Len(s) <= 4 THEN s ELSE SubSeq(s, Len(s) - 3, Len(s))

\* const SENSITIVE_KEY_PATTERNS = ['password', 'token', 'auth', ...]
SENSITIVE_KEY_PATTERNS ==
    {<< 112, 97, 115, 115, 119, 111, 114, 100 >>,
     << 116, 111, 107, 101, 110 >>,
     << 97, 117, 116, 104 >>,
     << 115, 101, 99, 114, 101, 116 >>,
     << 97, 112, 105, 107, 101, 121 >>,
     << 97, 112, 105, 95, 107, 101, 121 >>,
     << 99, 114, 101, 100, 101, 110, 116, 105, 97, 108 >>,
     << 98, 101, 97, 114, 101, 114 >>,
     << 97, 117, 116, 104, 111, 114, 105, 122, 97, 116, 105, 111, 110 >>,
     << 112, 114, 105, 118, 97, 116, 101, 95, 107, 101, 121 >>,
     << 97, 99, 99, 101, 115, 115, 95, 116, 111, 107, 101, 110 >>}

sRedacted == << 91, 82, 69, 68, 65, 67, 84, 69, 68, 93 >>
sEllipsis == << 46, 46, 46 >>
kProgressId == << 112, 114, 111, 103, 114, 101, 115, 115, 73, 100 >>
kRollbackToken == << 114, 111, 108, 108, 98, 97, 99, 107, 84, 111, 107, 101, 110 >>
kRollbackTokenHint == << 114, 111, 108, 108, 98, 97, 99, 107, 84, 111, 107, 101, 110, 72, 105, 110, 116 >>
kRollbackTokenHash == << 114, 111, 108, 108, 98, 97, 99, 107, 84, 111, 107, 101, 110, 72, 97, 115, 104 >>
kResultsId == << 114, 101, 115, 117, 108, 116, 115, 73, 100 >>
kSucceeded == << 115, 117, 99, 99, 101, 101, 100, 101, 100 >>
kFailed == << 102, 97, 105, 108, 101, 100 >>
kResult == << 114, 101, 115, 117, 108, 116 >>
\* the console templates a token value is interpolated into
tDebugSubmission == << 91, 100, 101, 98, 117, 103, 93, 32, 83, 117, 98, 109, 105, 115, 115, 105, 111, 110, 32, 114, 101, 115, 112, 111, 110, 115, 101, 58, 32, 114, 111, 108, 108, 98, 97, 99, 107, 84, 111, 107, 101, 110, 61 >>
tPartial == << 80, 97, 114, 116, 105, 97, 108, 32, 115, 117, 99, 99, 101, 115, 115, 46, 32, 82, 111, 108, 108, 98, 97, 99, 107, 32, 116, 111, 107, 101, 110, 58, 32 >>
tAllFailed == << 65, 108, 108, 32, 112, 97, 99, 107, 97, 103, 101, 40, 115, 41, 32, 102, 97, 105, 108, 101, 100, 46, 32, 82, 111, 108, 108, 98, 97, 99, 107, 32, 116, 111, 107, 101, 110, 58, 32 >>
tRollbackToken == << 82, 111, 108, 108, 98, 97, 99, 107, 32, 116, 111, 107, 101, 110, 58, 32 >>
tErrorMessage == << 82, 101, 113, 117, 101, 115, 116, 32, 102, 97, 105, 108, 101, 100, 32, 119, 105, 116, 104, 32, 115, 116, 97, 116, 117, 115, 32, 99, 111, 100, 101, 32 >>
tRollbackDone == << 82, 111, 108, 108, 98, 97, 99, 107, 32, 99, 111, 109, 112, 108, 101, 116, 101, 100, 32, 115, 117, 99, 99, 101, 115, 115, 102, 117, 108, 108, 121, 46 >>

\* SENSITIVE_KEY_PATTERNS.some((p) => lk.includes(p)) for lk = k.toLowerCase()
IsSensitiveKey(k) == \E p \in SENSITIVE_KEY_PATTERNS : Includes(ToLowerCase(k), p)
\* faulty variant: the meta object is written as given
SanitizeNothing(meta) == meta

\* sanitize(meta) on a flat object: the value of a sensitive key is replaced
Sanitize(meta) ==
    [k \in DOMAIN meta |->
        IF IsSensitiveKey(meta[k][1]) THEN << meta[k][1], JStr(sRedacted) >> ELSE meta[k]]

\* createHash('sha256').update(token).digest('hex'): the digest is kept
\* symbolic, a value of its own kind from which the token is not readable
hashRollbackToken(token) == [t |-> "sha256", n |-> 0, s |-> << >>, of |-> token.s]
\* faulty variant: the hint is the token itself
TokenHintWhole(token) == token

\* rollbackToken.slice(-4)
TokenLast4(token) == JStr(SliceLast4(token.s))

\* rollbackToken ? `...${rollbackToken.slice(-4)}` : null
TokenHint(token) ==
    IF Truthy(token) THEN JStr(sEllipsis \o TokenLast4(token).s) ELSE JNull

\* rollbackToken ? hashRollbackToken(rollbackToken) : null
TokenHash(token) == IF Truthy(token) THEN hashRollbackToken(token) ELSE JNull

\* one write to a sink: a history entry, a log line, a console line or the
\* tool result, as its (key, value) pairs
Emit(sink, fields) == [sink |-> sink, fields |-> fields]

\* logger.info(message, meta): writeLine sanitizes the meta object
LogLine(meta) == Emit("log", Sanitize(meta))

ConsoleLine(template, value) == Emit("console", << << template, value >> >>)

-----------------------------------------------------------------------------
(* src/utils/version.js, reconcilePackages *)

RECURSIVE SplitDots(_)
\* s.split('.')
SplitDots(s) ==
    IF \E k \in DOMAIN s : s[k] = 46
    THEN LET k == CHOOSE j \in DOMAIN s : s[j] = 46 /\ \A h \in 1..(j - 1) : s[h] # 46
         IN  << SubSeq(s, 1, k - 1) >> \o SplitDots(SubSeq(s, k + 1, Len(s)))
    ELSE << s >>

\* String(v).split('.').slice(0, 3).map((n) => parseInt(n, 10) || 0)
ParseVersion(v) ==
    LET parts == SplitDots(v)
        kept == SubSeq(parts, 1, IF Len(parts) < 3 THEN Len(parts) ELSE 3)
    IN  [k \in DOMAIN kept |->
            LET n == ParseInt(JStr(kept[k]))
            IN  IF n.t = "number" /\ n.n # 0 THEN n.n ELSE 0]

RECURSIVE CompareFrom(_, _, _)
\* the for loop of compareVersions from index k on; pa[i] is undefined past
\* the end of a short version, and both comparisons with undefined are false
CompareFrom(pa, pb, k) ==
    IF k > 3 THEN 0
    ELSE IF k \in DOMAIN pa /\ k \in DOMAIN pb /\ pa[k] < pb[k] THEN -1
    ELSE IF k \in DOMAIN pa /\ k \in DOMAIN pb /\ pa[k] > pb[k] THEN 1
    ELSE CompareFrom(pa, pb, k + 1)

compareVersions(a, b) == CompareFrom(ParseVersion(a), ParseVersion(b), 1)


\* compareVersions(from, to) === -1
isUpgrade(from, to) == compareVersions(from, to) = -1

\* const [fromMaj, fromMin] = parse(from): an index past the end is undefined,
\* and a comparison with undefined is false
SegmentGreater(pb, pa, k) == k \in DOMAIN pa /\ k \in DOMAIN pb /\ pb[k] > pa[k]

upgradeType(from, to) ==
    IF ~isUpgrade(from, to) THEN "none"
    ELSE IF SegmentGreater(ParseVersion(to), ParseVersion(from), 1) THEN "major"
    ELSE IF SegmentGreater(ParseVersion(to), ParseVersion(from), 2) THEN "minor"
    ELSE "patch"

\* vtype = upgradeType(vfrom, vto)
UpgradeTypeCall ==
    /\ vpc = "call"
    /\ vtype' = upgradeType(vfrom, vto)
    /\ vpc' = "returned"
    /\ UNCHANGED << vfrom, vto >>
    /\ UNCHANGED << confirmVars, manifestVars, rerunVars, fetchVars, requestVars >>
    /\ UNCHANGED coreVars

\* compareVersions(vfrom, vto) called on its own, as the unit tests call it
CompareVersionsCall ==
    /\ vpc = "call"
    /\ vtype' = compareVersions(vfrom, vto)
    /\ vpc' = "compared"
    /\ UNCHANGED << vfrom, vto >>
    /\ UNCHANGED << confirmVars, manifestVars, rerunVars, fetchVars, requestVars >>
    /\ UNCHANGED coreVars

NoVersion == << >>

\* new Map(targetApps.map((a) => [a.scope, a])): the keys in insertion order
RECURSIVE MapKeys(_)
MapKeys(apps) ==
    IF apps = << >> THEN << >>
    ELSE LET front == MapKeys(SubSeq(apps, 1, Len(apps) - 1))
             last == apps[Len(apps)].scope
         IN  IF \E k \in DOMAIN front : front[k] = last THEN front ELSE Append(front, last)

HasScope(apps, scope) == \E k \in DOMAIN apps : apps[k].scope = scope

\* targetMap.get(scope): the last app given for the scope
MapGet(apps, scope) ==
    apps[CHOOSE k \in DOMAIN apps :
            apps[k].scope = scope /\ \A h \in (k + 1)..Len(apps) : apps[h].scope # scope]

Verdict(pkg, targetCurrentVersion, action, reason) ==
    [scope |-> pkg.scope, currentVersion |-> pkg.currentVersion,
     targetVersion |-> pkg.targetVersion, targetCurrentVersion |-> targetCurrentVersion,
     action |-> action, reason |-> reason]

\* the body of the loop over manifestPackages
VerdictFor(pkg, apps) ==
    IF ~HasScope(apps, pkg.scope)
    THEN Verdict(pkg, NoVersion, "skip", "not_installed")
    ELSE LET target == MapGet(apps, pkg.scope)
             cmp == compareVersions(target.version, pkg.targetVersion)
         IN  IF cmp = 0 THEN Verdict(pkg, target.version, "skip", "already_current")
             ELSE IF cmp < 0
             THEN Verdict(pkg, target.version, "include",
                          IF target.version # pkg.currentVersion THEN "version_mismatch"
                          ELSE "matched")
             ELSE Verdict(pkg, target.version, "skip", "target_ahead")
\* faulty variant: every target app is reported as extra
ExtraVerdictsAll(pkgs, apps) ==
    [k \in DOMAIN MapKeys(apps) |->
        [scope |-> MapKeys(apps)[k], currentVersion |-> MapGet(apps, MapKeys(apps)[k]).version,
         targetVersion |-> MapGet(apps, MapKeys(apps)[k]).version,
         targetCurrentVersion |-> MapGet(apps, MapKeys(apps)[k]).version,
         action |-> "extra", reason |-> "extra_available"]]

\* the loop over targetMap: one 'extra' verdict per target scope that no
\* source item has
ExtraVerdicts(pkgs, apps) ==
    LET keys == SelectSeq(MapKeys(apps), LAMBDA s : ~HasScope(pkgs, s))
    IN  [k \in DOMAIN keys |->
            LET target == MapGet(apps, keys[k])
            IN  [scope |-> keys[k], currentVersion |-> target.version,
                 targetVersion |-> target.version, targetCurrentVersion |-> target.version,
                 action |-> "extra", reason |-> "extra_available"]]

reconcilePackages(pkgs, apps) ==
    [k \in DOMAIN pkgs |-> VerdictFor(pkgs[k], apps)] \o ExtraVerdicts(pkgs, apps)

\* faulty variant: the verdict is written into the source item itself
ItemsAssignedInPlace(pkgs, apps) == [k \in DOMAIN pkgs |-> VerdictFor(pkgs[k], apps)]

\* the caller's manifestPackages once the loop has run: { ...pkg, action,
\* reason } copies the members of pkg into a new object, pkg is not written to
ItemsAfterSpread(pkgs, apps) == pkgs

\* results = reconcilePackages(manifestPackages, targetApps)
Reconcile ==
    /\ rpc = "call"
    /\ verdicts' = reconcilePackages(manifestPackages, targetApps)
    /\ rpc' = "returned"
    /\ manifestPackages' = ItemsAfterSpread(manifestPackages, targetApps)
    /\ targetApps' = targetApps
    /\ UNCHANGED << execVars, pollVars, retryVars, tokenVars >>
    /\ UNCHANGED utilVars

-----------------------------------------------------------------------------
(* src/models/manifest.js *)

MANIFEST_VERSION == 1

RECURSIVE localeCompare(_, _)
\* a.localeCompare(b) for strings of lower-case letters and underscores,
\* which collate in the order of their character codes; a proper prefix
\* comes first
localeCompare(a, b) ==
    IF a = << >> /\ b = << >> THEN 0
    ELSE IF a = << >> THEN -1
    ELSE IF b = << >> THEN 1
    ELSE IF Head(a) < Head(b) THEN -1
    ELSE IF Head(a) > Head(b) THEN 1
    ELSE localeCompare(Tail(a), Tail(b))
\* (a, b) => a.scope.localeCompare(b.scope)
CompareScopes(a, b) == localeCompare(a.scope, b.scope)

RECURSIVE InsertStable(_, _)
\* x is put behind every element that does not compare greater than it
InsertStable(sorted, x) ==
    IF sorted = << >> THEN << x >>
    ELSE IF CompareScopes(sorted[Len(sorted)], x) <= 0 THEN Append(sorted, x)
    ELSE Append(InsertStable(SubSeq(sorted, 1, Len(sorted) - 1), x), sorted[Len(sorted)])

RECURSIVE SortByScope(_)
\* [...packages].sort(compare): Array.prototype.sort is stable, elements that
\* compare equal keep the order they were given in
SortByScope(pkgs) ==
    IF pkgs = << >> THEN << >>
    ELSE InsertStable(SortByScope(SubSeq(pkgs, 1, Len(pkgs) - 1)), pkgs[Len(pkgs)])

\* the number of packages of an upgrade type
CountType(pkgs, type) == Cardinality({k \in DOMAIN pkgs : pkgs[k].upgradeType = type})

computeStats(pkgs) ==
    [total |-> Len(pkgs), patch |-> CountType(pkgs, "patch"),
     minor |-> CountType(pkgs, "minor"), major |-> CountType(pkgs, "major"),
     none |-> CountType(pkgs, "none")]

\* createdAt is new Date().toISOString() at the time of the call
buildManifest(pkgs, instanceUrl, profileName, instanceVersion, snbatchVersion, createdAt) ==
    [manifestVersion |-> MANIFEST_VERSION,
     metadata |-> [createdAt |-> createdAt, instance |-> instanceUrl,
                   instanceVersion |-> instanceVersion, profile |-> profileName,
                   snbatchVersion |-> snbatchVersion],
     packages |-> SortByScope(pkgs),
     stats |-> computeStats(SortByScope(pkgs))]

\* JSON.stringify of one package: its members in insertion order
PackageLines(pkg) ==
    << << "sysId", pkg.sysId >>, << "scope", pkg.scope >>,
       << "targetVersion", pkg.targetVersion >>, << "upgradeType", pkg.upgradeType >> >>

RECURSIVE PackagesLines(_)
PackagesLines(pkgs) ==
    IF pkgs = << >> THEN << >>
    ELSE PackageLines(Head(pkgs)) \o PackagesLines(Tail(pkgs))

\* JSON.stringify(manifest, null, 2): the members in insertion order, the
\* packages array in its order
Serialize(manifest) ==
    << << "manifestVersion", manifest.manifestVersion >>,
       << "metadata.createdAt", manifest.metadata.createdAt >>,
       << "metadata.instance", manifest.metadata.instance >>,
       << "metadata.instanceVersion", manifest.metadata.instanceVersion >>,
       << "metadata.profile", manifest.metadata.profile >>,
       << "metadata.snbatchVersion", manifest.metadata.snbatchVersion >>,
       << "packages.length", Len(manifest.packages) >> >>
    \o PackagesLines(manifest.packages)
    \o << << "stats.total", manifest.stats.total >>,
          << "stats.patch", manifest.stats.patch >>,
          << "stats.minor", manifest.stats.minor >>,
          << "stats.major", manifest.stats.major >>,
          << "stats.none", manifest.stats.none >> >>

sInstanceUrl == << 104, 116, 116, 112, 115, 58, 47, 47, 100, 101, 118, 46, 115, 101, 114, 118, 105, 99, 101, 45, 110, 111, 119, 46, 99, 111, 109 >>
sProfileDev == << 100, 101, 118 >>
\* the defaults of instanceVersion and snbatchVersion
sUnknown == << 85, 110, 107, 110, 111, 119, 110 >>
sSnbatchVersion == << 48, 46, 49, 46, 48 >>

\* buildManifest(supplied[k], ...) for the next list, at some time not
\* earlier than the call before
BuildManifestCall(Times) ==
    /\ bpc = "call"
    /\ \E t \in Times :
          /\ \A k \in DOMAIN manifests : manifests[k].metadata.createdAt <= t
          /\ manifests' = Append(manifests,
                 buildManifest(supplied[Len(manifests) + 1], sInstanceUrl,
                               sProfileDev, sUnknown, sSnbatchVersion, t))
    /\ bpc' = IF Len(manifests) + 1 = Len(supplied) THEN "built" ELSE "call"
    /\ UNCHANGED << supplied, mpc, parsedPlan, loadOutcome >>
    /\ UNCHANGED << versionVars, confirmVars, rerunVars, fetchVars, requestVars >>
    /\ UNCHANGED coreVars

\* a parsed JSON object and a parsed JSON array
JObject(members) == [t |-> "object"] @@ members
JArray(items) == [t |-> "array", items |-> items]

\* true and false
JBool(b) == [t |-> "boolean", n |-> IF b THEN 1 ELSE 0, s |-> << >>]

\* !v
Falsy(v) ==
    \/ v.t \in {"null", "NaN"}
    \/ v.t \in {"number", "boolean"} /\ v.n = 0
    \/ v.t = "string" /\ v.s = << >>

\* v.name for a v that is neither null nor undefined; a member that is not
\* there reads as undefined
Member(v, name) == IF v.t = "object" /\ name \in DOMAIN v THEN v[name] ELSE JNull

\* obj.metadata?.instance
MetadataInstance(obj) ==
    IF Member(obj, "metadata").t = "null" THEN JNull
    ELSE Member(Member(obj, "metadata"), "instance")

\* the two checks of the loop body for one package
PackageErrors(pkg) ==
    (IF Falsy(Member(pkg, "scope"))
     THEN << << "Package missing scope: ", pkg >> >> ELSE << >>)
    \o (IF Falsy(Member(pkg, "sysId"))
        THEN << << "Package missing sysId (scope: ", Member(pkg, "scope") >> >> ELSE << >>)

RECURSIVE AllPackageErrors(_)
AllPackageErrors(items) ==
    IF items = << >> THEN << >>
    ELSE PackageErrors(Head(items)) \o AllPackageErrors(Tail(items))

\* pkg.scope of a null element throws a TypeError
ReadsMemberOfNull(items) == \E k \in DOMAIN items : items[k].t = "null"

validateManifest(obj) ==
    IF obj.t # "object"
    THEN [kind |-> "result", valid |-> FALSE, errors |-> << << "Must be an object", JNull >> >>]
    ELSE IF Member(obj, "packages").t = "array" /\ ReadsMemberOfNull(Member(obj, "packages").items)
    THEN [kind |-> "TypeError"]
    ELSE LET errors ==
                 (IF Member(obj, "manifestVersion") # JNum(MANIFEST_VERSION)
                  THEN << << "Expected manifestVersion ", JNum(MANIFEST_VERSION) >> >> ELSE << >>)
                 \o (IF Falsy(MetadataInstance(obj))
                     THEN << << "metadata.instance is required", JNull >> >> ELSE << >>)
                 \o (IF Member(obj, "packages").t # "array"
                     THEN << << "packages must be an array", JNull >> >>
                     ELSE AllPackageErrors(Member(obj, "packages").items))
         IN  [kind |-> "result", valid |-> errors = << >>, errors |-> errors]

RECURSIVE JoinComma(_)
\* errors.join(', ')
JoinComma(errors) ==
    IF errors = << >> THEN << >>
    ELSE IF Len(errors) = 1 THEN errors
    ELSE << Head(errors), << ", ", JNull >> >> \o JoinComma(Tail(errors))

\* readManifest once the file is read and parsed
readManifest(plan) ==
    LET checked == validateManifest(plan)
    IN  IF checked.kind = "TypeError" THEN [kind |-> "TypeError"]
        ELSE IF ~checked.valid
        THEN [kind |-> "Error",
              message |-> << << "Invalid manifest: ", JNull >> >> \o JoinComma(checked.errors)]
        ELSE [kind |-> "returned", value |-> plan]

\* JSON.parse(JSON.stringify(manifest, null, 2))
JsonImage(manifest) ==
    JObject([manifestVersion |-> JNum(manifest.manifestVersion),
             metadata |-> JObject([createdAt |-> JNum(manifest.metadata.createdAt),
                                   instance |-> JStr(manifest.metadata.instance),
                                   instanceVersion |-> JStr(manifest.metadata.instanceVersion),
                                   profile |-> JStr(manifest.metadata.profile),
                                   snbatchVersion |-> JStr(manifest.metadata.snbatchVersion)]),
             packages |-> JArray([k \in DOMAIN manifest.packages |->
                                    JObject([sysId |-> JStr(manifest.packages[k].sysId),
                                             scope |-> JStr(manifest.packages[k].scope),
                                             targetVersion |-> JStr(manifest.packages[k].targetVersion),
                                             upgradeType |-> manifest.packages[k].upgradeType])]),
             stats |-> manifest.stats])

\* writeManifest(manifest, path), and the file read and parsed again
WriteManifestCall ==
    /\ bpc = "built"
    /\ mpc = "idle"
    /\ parsedPlan' = JsonImage(manifests[Len(manifests)])
    /\ mpc' = "call"
    /\ UNCHANGED << bpc, supplied, manifests, loadOutcome >>
    /\ UNCHANGED << versionVars, confirmVars, rerunVars, fetchVars, requestVars >>
    /\ UNCHANGED coreVars

\* readManifest(path) from the parsed content on
ReadManifestCall ==
    /\ mpc = "call"
    /\ loadOutcome' = readManifest(parsedPlan)
    /\ mpc' = "done"
    /\ UNCHANGED << bpc, supplied, manifests, parsedPlan >>
    /\ UNCHANGED << versionVars, confirmVars, rerunVars, fetchVars, requestVars >>
    /\ UNCHANGED coreVars

-----------------------------------------------------------------------------
(* The install requests: installApp and startBatchInstall (src/api/cicd.js), *)
(* toInstallPayload (src/models/package.js)                                  *)

sTrue == << 116, 114, 117, 101 >>

\* a parameter that was not passed takes its default
DefaultTo(arg, default) == IF arg.t = "null" THEN default ELSE arg

\* installApp(client, scope, version, retryOpts, loadDemoData = false): the
\* request it posts
installApp(scope, version, loadDemoData) ==
    [path |-> "/api/sn_cicd/app_repo/install",
     params |-> JObject(IF Falsy(DefaultTo(loadDemoData, JBool(FALSE)))
                        THEN [scope |-> scope, version |-> version]
                        ELSE [scope |-> scope, version |-> version,
                              load_demo_data |-> JStr(sTrue)])]

toInstallPayload(pkg) ==
    JObject([id |-> Member(pkg, "scope"), version |-> Member(pkg, "targetVersion"),
             type |-> "application", load_demo_data |-> JBool(FALSE)])

\* startBatchInstall(client, packages, retryOpts): the request it posts
startBatchInstall(payloads) ==
    [path |-> "/api/sn_cicd/app/batch/install",
     payload |-> JObject([packages |-> JArray(payloads)])]

\* runSequentialInstall: installApp(client, pkg.scope, pkg.targetVersion,
\* retryOpts), no fifth argument
SequentialInstallRequest ==
    /\ qpc = "call"
    /\ request' = installApp(Member(qitem, "scope"), Member(qitem, "targetVersion"), JNull)
    /\ qpc' = "sent"
    /\ UNCHANGED qitem
    /\ UNCHANGED << versionVars, confirmVars, manifestVars, rerunVars, fetchVars >>
    /\ UNCHANGED coreVars

\* runBatchInstall and the snbatch_install tool: startBatchInstall(client,
\* packages.map(toInstallPayload), retryOpts)
BatchInstallRequest ==
    /\ qpc = "call"
    /\ request' = startBatchInstall(<< toInstallPayload(qitem) >>)
    /\ qpc' = "sent"
    /\ UNCHANGED qitem
    /\ UNCHANGED << versionVars, confirmVars, manifestVars, rerunVars, fetchVars >>
    /\ UNCHANGED coreVars

-----------------------------------------------------------------------------
(* src/mcp/confirmations.js, src/utils/confirmations.js *)

\* const TOKEN_TTL_MS = 5 * 60 * 1000
TOKEN_TTL_MS == 5 * 60 * 1000

sHttp == << 104, 116, 116, 112, 58, 47, 47 >>
sHttps == << 104, 116, 116, 112, 115, 58, 47, 47 >>

\* no call has been made yet
NoCall ==
    [tool |-> "none", operation |-> "", token |-> 0, value |-> << >>,
     verified |-> "none", submitted |-> FALSE, at |-> 0, instanceHost |-> << >>]

\* a call of issueConfirmationChallenge, verifyConfirmation or a tool handler:
\* its arguments, what verifyConfirmation answered in it ("none": it was not
\* called), and whether the handler went on to send its request
Call(name, operation, token, value, verified, sent) ==
    [tool |-> name, operation |-> operation, token |-> token, value |-> value,
     verified |-> verified, submitted |-> sent, at |-> now, instanceHost |-> << >>]

\* a call of a tool handler: creds.instanceHost, as resolveCredentials(profile)
\* gave it, is the instance the handler's client sends its request to
CallOn(instanceHost, call) == [call EXCEPT !.instanceHost = instanceHost]

RECURSIVE TrimEnd(_)
TrimEnd(s) == IF s # << >> /\ IsSpace(s[Len(s)]) THEN TrimEnd(SubSeq(s, 1, Len(s) - 1)) ELSE s

\* s.trim()
Trim(s) == TrimEnd(SkipSpace(s))

StartsWith(s, p) == Len(s) >= Len(p) /\ SubSeq(s, 1, Len(p)) = p

\* s.replace(/^https?:\/\//, '')
StripScheme(s) ==
    IF StartsWith(s, sHttps) THEN SubSeq(s, Len(sHttps) + 1, Len(s))
    ELSE IF StartsWith(s, sHttp) THEN SubSeq(s, Len(sHttp) + 1, Len(s))
    ELSE s

\* s.replace(/\/$/, '')
StripSlash(s) == IF s # << >> /\ s[Len(s)] = 47 THEN SubSeq(s, 1, Len(s) - 1) ELSE s

\* const normalize = (s) => s.trim().toLowerCase().replace(...).replace(...)
Normalize(s) == StripSlash(StripScheme(ToLowerCase(Trim(s))))

validateTypedConfirmation(input, expected) == Normalize(input) = Normalize(expected)

\* requiresTypedConfirmation(stats) with stats.major counted over the packages
installNeedsConfirmation(pkgs) ==
    Cardinality({k \in DOMAIN pkgs : pkgs[k].upgradeType = "major"}) > 0

\* the Map without a key / with a key set
MapDelete(map, token) == [t \in (DOMAIN map) \ {token} |-> map[t]]
MapSet(map, token, data) == [t \in (DOMAIN map) \cup {token} |-> IF t = token THEN data ELSE map[t]]
\* faulty variant: a token never expires
IsExpiredNever(data) == FALSE

\* now > data.expiresAt
IsExpired(data) == now > data.expiresAt

\* cleanupExpired(): every expired token is deleted
CleanupExpired(map) == [t \in {u \in DOMAIN map : ~IsExpired(map[u])} |-> map[t]]

\* { instanceHost, operation, expiresAt: Date.now() + TOKEN_TTL_MS }
Challenge(instanceHost, operation) ==
    [instanceHost |-> instanceHost, operation |-> operation, expiresAt |-> now + TOKEN_TTL_MS]

\* const token = randomUUID(): a value never handed out before
FreshToken == issued + 1

\* the store after issueConfirmationChallenge(instanceHost, operation)
Issue(instanceHost, operation) ==
    /\ challenges' = MapSet(CleanupExpired(challenges), FreshToken,
                            Challenge(instanceHost, operation))
    /\ issued' = issued + 1
    /\ handedOut' = Append(handedOut, [at |-> now, operation |-> operation,
                                       instanceHost |-> instanceHost])
    /\ validCount' = Append(validCount, 0)
\* faulty variant: the operation a token was issued for is not looked at
OperationDiffersNever(data, operation) == FALSE

\* operation && challenge.operation !== operation; "" stands for undefined
OperationDiffers(data, operation) == operation # "" /\ data.operation # operation
\* faulty variant: a verified token stays in the store
AfterValidKept(token) == challenges

\* challenges.delete(token) before return { valid: true }
AfterValid(token) == MapDelete(challenges, token)

\* what verifyConfirmation(token, value, operation) returns
VerifyAnswer(token, value, operation) ==
    IF token \notin DOMAIN challenges THEN "not_found"
    ELSE IF IsExpired(challenges[token]) THEN "expired"
    ELSE IF OperationDiffers(challenges[token], operation) THEN "wrong_operation"
    ELSE IF ~validateTypedConfirmation(value, challenges[token].instanceHost) THEN "mismatch"
    ELSE "valid"

\* the store after verifyConfirmation(token, value, operation)
Verify(token, value, operation) ==
    LET answer == VerifyAnswer(token, value, operation)
    IN  /\ challenges' = (CASE answer = "valid" -> AfterValid(token)
                            [] answer \in {"expired", "wrong_operation"} ->
                                  MapDelete(challenges, token)
                            [] OTHER -> challenges)
        /\ validCount' = IF answer = "valid"
                         THEN [validCount EXCEPT ![token] = @ + 1]
                         ELSE validCount
        /\ UNCHANGED << issued, handedOut >>

\* issueConfirmationChallenge(instanceHost, operation) is called
IssueConfirmationChallenge(Hosts, Operations, MaxIssued) ==
    /\ issued < MaxIssued
    /\ \E host \in Hosts, operation \in Operations :
          /\ Issue(host, operation)
          /\ lastCall' = Call("issueConfirmationChallenge", operation, FreshToken,
                               << >>, "none", FALSE)
    /\ UNCHANGED now
    /\ UNCHANGED << versionVars, manifestVars, rerunVars, fetchVars, requestVars >>
    /\ UNCHANGED coreVars

\* verifyConfirmation(token, value, operation) is called
VerifyConfirmation(Values, Operations) ==
    /\ \E token \in 0..issued, value \in Values, operation \in Operations :
          /\ Verify(token, value, operation)
          /\ lastCall' = Call("verifyConfirmation", operation, token, value,
                               VerifyAnswer(token, value, operation), FALSE)
    /\ UNCHANGED now
    /\ UNCHANGED << versionVars, manifestVars, rerunVars, fetchVars, requestVars >>
    /\ UNCHANGED coreVars

\* the snbatch_install handler up to startBatchInstall; token -1 stands for
\* no confirmationToken argument, and confirmationValue ?? '' is passed on.
\* What the handler does from startBatchInstall on is McpInstallSubmit and
\* McpInstallRecord.
McpInstallGate(PackageSets, instanceHost, Values, MaxIssued) ==
    /\ \E pkgs \in PackageSets, token \in (-1)..issued, value \in Values :
          IF installNeedsConfirmation(pkgs)
          THEN IF token = -1
               THEN /\ issued < MaxIssued
                    /\ Issue(instanceHost, "install")
                    /\ lastCall' = CallOn(instanceHost, Call("snbatch_install", "install", FreshToken, << >>,
                                         "none", FALSE))
               ELSE /\ Verify(token, value, "install")
                    /\ lastCall' = CallOn(instanceHost, Call("snbatch_install", "install", token, value,
                                         VerifyAnswer(token, value, "install"),
                                         VerifyAnswer(token, value, "install") = "valid"))
          ELSE /\ lastCall' = CallOn(instanceHost, Call("snbatch_install", "install", token, value, "none", TRUE))
               /\ UNCHANGED << challenges, issued, handedOut, validCount >>
    /\ UNCHANGED now
    /\ UNCHANGED << versionVars, manifestVars, rerunVars, fetchVars, requestVars >>
    /\ UNCHANGED coreVars

\* the snbatch_rollback handler up to startBatchRollback; what it does from
\* there on is McpRollbackSubmit and McpRollbackRecord
McpRollbackGate(instanceHost, Values, MaxIssued) ==
    /\ \E token \in (-1)..issued, value \in Values :
          IF token = -1
          THEN /\ issued < MaxIssued
               /\ Issue(instanceHost, "rollback")
               /\ lastCall' = CallOn(instanceHost, Call("snbatch_rollback", "rollback", FreshToken, << >>,
                                    "none", FALSE))
          ELSE /\ Verify(token, value, "rollback")
               /\ lastCall' = CallOn(instanceHost, Call("snbatch_rollback", "rollback", token, value,
                                    VerifyAnswer(token, value, "rollback"),
                                    VerifyAnswer(token, value, "rollback") = "valid"))
    /\ UNCHANGED now
    /\ UNCHANGED << versionVars, manifestVars, rerunVars, fetchVars, requestVars >>
    /\ UNCHANGED coreVars

\* time passes between two calls
ClockAdvance(Times) ==
    /\ \E t \in Times : t > now /\ now' = t
    /\ UNCHANGED << challenges, issued, handedOut, validCount, lastCall >>
    /\ UNCHANGED << versionVars, manifestVars, rerunVars, fetchVars, requestVars >>
    /\ UNCHANGED coreVars

-----------------------------------------------------------------------------
(* src/commands/install.js *)

NoEntry == [mode |-> "none"]

total == Len(packages)

\* the error of a failed item: lastData?.status_message ?? 'Failed'
StatusFailure(data) ==
    [kind |-> "status", status |-> 0, afterMs |-> 0,
     note |-> Coalesce(data.status_message, JStr(sFailedMsg))]

\* an error thrown by installApp / startBatchInstall once withRetry gave up
SubmitError(status) == [kind |-> "submit", status |-> status, afterMs |-> 0, note |-> ""]

\* the opts runSequentialInstall hands to pollProgress
SequentialPollOpts(scope) ==
    [progressId |-> scope, pollInterval |-> config.sequentialPollInterval,
     maxPollDuration |-> config.maxPollDuration, retries |-> config.retries,
     backoffBase |-> config.backoffBase]

\* the opts runBatchInstall hands to pollProgress
BatchPollOpts ==
    [progressId |-> "batch", pollInterval |-> config.pollInterval,
     maxPollDuration |-> config.maxPollDuration, retries |-> config.retries,
     backoffBase |-> config.backoffBase]

\* failed === 0 ? 'success' : succeeded === 0 ? 'failed' : 'partial'
SequentialResult(s, f) == IF f = 0 THEN "success" ELSE IF s = 0 THEN "failed" ELSE "partial"

BatchResult(s, f) == IF f = 0 THEN "success" ELSE IF s = 0 THEN "failed" ELSE "partial"
\* faulty variant: every failure exits 1
SequentialExitFlat(s, f) == IF f > 0 THEN 1 ELSE 0

\* if (failed > 0 && succeeded > 0) process.exit(1);
\* if (failed > 0 && succeeded === 0) process.exit(2); else the action returns
SequentialExit(s, f) == IF f > 0 /\ s > 0 THEN 1 ELSE IF f > 0 /\ s = 0 THEN 2 ELSE 0

BatchExit(s, f) == IF f > 0 /\ s > 0 THEN 1 ELSE IF f > 0 THEN 2 ELSE 0
\* faulty variant: the consumer stops listening at the first snapshot
PollReturnedEarly == ppc \in {"returned", "yielded"}

\* for await (... of pollProgress(...)) has ended, by return or by throw
PollReturned == ppc = "returned"
PollThrew == ppc = "threw"

\* for (let i = 0; i < total; i++): the next index
NextIndex(k) == k + 1

\* const pkg = packages[i]
ItemAt(k) == packages[k]
\* faulty variant: the 0-based bound applied to the 1-based index
AsksContinuationOffByOne == ~opts.continueOnError /\ i < total - 1

\* faulty variant: the continue-on-error option is not consulted
AsksContinuationAlways == i < total

\* if (!opts.continueOnError && i < total - 1)
AsksContinuation == ~opts.continueOnError /\ i < total
\* faulty variant: the non-TTY default is forgotten
HaltsOnFlagOnly == opts.stopOnError

\* if (opts.stopOnError || !isTTY)
HaltsWithoutPrompt == opts.stopOnError \/ ~isTTY

\* what follows a failed item: break, the prompt, or the next item
AfterFailure ==
    IF AsksContinuation
    THEN IF HaltsWithoutPrompt
         THEN pc' = "seqRecord" /\ i' = i
         ELSE pc' = "seqPrompt" /\ i' = i
    ELSE pc' = "seqLoop" /\ i' = NextIndex(i)

\* const concurrency = parseInt(opts.concurrency, 10); if (concurrency !== 1) warn
ValidateConcurrency ==
    /\ pc = "validate"
    /\ warned' = ~StrictEqNum(ParseInt(opts.concurrency), 1)
    /\ pc' = "preflight"
    /\ UNCHANGED << opts, isTTY, config, packages, i, succeeded, failed,
                    failedPackages, rollbackVersions, curRollback, prompts,
                    history, exitCode, submitted, serverOutcome, resultsId >>
    /\ UNCHANGED pollVars
    /\ UNCHANGED libVars

\* credentials, the credential-alias check, the item selection and the
\* confirmation: either the executor is entered or the command exits 2
Preflight ==
    /\ pc = "preflight"
    /\ \/ pc' = (IF opts.batch THEN "batchSubmit" ELSE "seqLoop") /\ exitCode' = exitCode
       \/ pc' = "exited" /\ exitCode' = 2
    /\ UNCHANGED << opts, isTTY, config, packages, i, succeeded, failed,
                    failedPackages, rollbackVersions, curRollback, warned, prompts,
                    history, submitted, serverOutcome, resultsId >>
    /\ UNCHANGED pollVars
    /\ UNCHANGED libVars

\* installApp(client, pkg.scope, pkg.targetVersion, retryOpts): the request
\* is sent; it returns a progress id and maybe a rollback version, and the
\* poll starts, or it throws and the catch block runs
SeqSubmit(RollbackValues, SubmitErrors) ==
    /\ pc = "seqLoop"
    /\ i <= total
    /\ submitted' = Append(submitted, ItemAt(i))
    /\ \/ \E rv \in RollbackValues :
            /\ curRollback' = rv
            /\ rollbackVersions' =
                 IF rv # "" THEN Append(rollbackVersions, [scope |-> ItemAt(i), version |-> rv])
                 ELSE rollbackVersions
            /\ PollStart(SequentialPollOpts(ItemAt(i)))
            /\ pc' = "seqPolling"
            /\ UNCHANGED << i, failed, failedPackages >>
       \/ \E e \in SubmitErrors :
            /\ failed' = failed + 1
            /\ failedPackages' = Append(failedPackages, [scope |-> ItemAt(i), error |-> e])
            /\ AfterFailure
            /\ UNCHANGED << curRollback, rollbackVersions >>
            /\ UNCHANGED pollVars
    /\ UNCHANGED << opts, isTTY, config, packages, succeeded, warned, prompts,
                    history, exitCode, serverOutcome, resultsId >>
    /\ UNCHANGED libVars

\* the poll loop ended by return: const success = isProgressSuccess(lastData)
SeqAfterPoll ==
    /\ pc = "seqPolling"
    /\ PollReturned
    /\ PollDiscard
    /\ IF isProgressSuccess(lastData)
       THEN /\ succeeded' = succeeded + 1
            /\ pc' = "seqLoop"
            /\ i' = NextIndex(i)
            /\ UNCHANGED << failed, failedPackages >>
       ELSE /\ failed' = failed + 1
            /\ failedPackages' =
                 Append(failedPackages, [scope |-> ItemAt(i), error |-> StatusFailure(lastData)])
            /\ AfterFailure
            /\ UNCHANGED succeeded
    /\ UNCHANGED << opts, isTTY, config, packages, rollbackVersions, curRollback,
                    warned, prompts, history, exitCode, submitted, serverOutcome,
                    resultsId >>
    /\ UNCHANGED libVars

\* the poll loop ended by throw: } catch (err) { failed++ ... }
SeqCatchPoll ==
    /\ pc = "seqPolling"
    /\ PollThrew
    /\ PollDiscard
    /\ failed' = failed + 1
    /\ failedPackages' = Append(failedPackages, [scope |-> ItemAt(i), error |-> pollErr])
    /\ AfterFailure
    /\ UNCHANGED << opts, isTTY, config, packages, succeeded, rollbackVersions,
                    curRollback, warned, prompts, history, exitCode, submitted,
                    serverOutcome, resultsId >>
    /\ UNCHANGED libVars

\* inquirer.prompt "Continue with remaining N package(s)?"; if (!cont) break
SeqPrompt ==
    /\ pc = "seqPrompt"
    /\ prompts' = prompts + 1
    /\ \E cont \in BOOLEAN :
          IF cont THEN pc' = "seqLoop" /\ i' = NextIndex(i)
          ELSE pc' = "seqRecord" /\ i' = i
    /\ UNCHANGED << opts, isTTY, config, packages, succeeded, failed, failedPackages,
                    rollbackVersions, curRollback, warned, history, exitCode,
                    submitted, serverOutcome, resultsId >>
    /\ UNCHANGED pollVars
    /\ UNCHANGED libVars

\* runSequentialInstall returns; installCommand appends the history entry
\* and exits; a failed append is caught and exits 2
SeqRecord ==
    /\ \/ pc = "seqRecord"
       \/ pc = "seqLoop" /\ i > total
    /\ pc' = "exited"
    /\ \/ /\ history' = [mode |-> "sequential",
                         result |-> SequentialResult(succeeded, failed),
                         succeeded |-> succeeded, failed |-> failed,
                         rollbackVersions |-> rollbackVersions]
          /\ exitCode' = SequentialExit(succeeded, failed)
       \/ /\ history' = history
          /\ exitCode' = 2
    /\ UNCHANGED << opts, isTTY, config, packages, i, succeeded, failed,
                    failedPackages, rollbackVersions, curRollback, warned, prompts,
                    submitted, serverOutcome, resultsId >>
    /\ UNCHANGED pollVars
    /\ UNCHANGED libVars

\* what the server did with each item of a batch, as its results would tell
ItemResult(scope) ==
    [id |-> scope, state |-> JNull,
     status |-> JStr(IF serverOutcome[scope] = "ok" THEN sSuccess ELSE sFailed)]

ServerResults == [k \in 1..total |-> ItemResult(packages[k])]

\* (r.status ?? r.state ?? '').toLowerCase() is 'success' or 'complete'
ItemSucceeded(r) ==
    LET status == ToLowerCase(JsString(Coalesce(Coalesce(r.status, r.state), JStr(<< >>))))
    IN  status = sSuccess \/ status = sComplete

CountSucceeded(results) == Cardinality({k \in DOMAIN results : ItemSucceeded(results[k])})
CountFailed(results) == Cardinality({k \in DOMAIN results : ~ItemSucceeded(results[k])})

\* faulty variant: the fetched list is used even when it is empty
ResultsFetchedOnly(fetched) == fetched

\* if (!results.length) results = lastData?.packages ?? ... ?? []
ResultsOrEmbedded(fetched) == IF Len(fetched) # 0 THEN fetched ELSE lastData.packages

\* what fetchBatchResults may do: return the items, return none, or throw
\* once withRetry gave up
FetchOutcomes == {"items", "empty", "threw"}

\* let results = []; if (resultsId) { try { results = await
\* fetchBatchResults(...) } catch (e) { logger.warn(...) } }
FetchedResults(outcome) == IF outcome = "items" THEN ServerResults ELSE << >>

\* startBatchInstall(client, payloads, retryOpts): one request for the whole
\* list; the poll starts, or the error reaches installCommand's catch
BatchSubmit ==
    /\ pc = "batchSubmit"
    /\ submitted' = submitted \o packages
    /\ \/ /\ \E rid \in BOOLEAN : resultsId' = rid
          /\ \E so \in [{packages[k] : k \in 1..total} -> {"ok", "fail"}] :
                serverOutcome' = so
          /\ PollStart(BatchPollOpts)
          /\ pc' = "batchPolling"
          /\ exitCode' = exitCode
       \/ /\ pc' = "exited"
          /\ exitCode' = 2
          /\ UNCHANGED << serverOutcome, resultsId >>
          /\ UNCHANGED pollVars
    /\ UNCHANGED << opts, isTTY, config, packages, i, succeeded, failed,
                    failedPackages, rollbackVersions, curRollback, warned, prompts,
                    history >>
    /\ UNCHANGED libVars

\* the batch poll threw (hard failure or timeout): printError, process.exit(2)
BatchPollThrew ==
    /\ pc = "batchPolling"
    /\ PollThrew
    /\ PollDiscard
    /\ pc' = "exited"
    /\ exitCode' = 2
    /\ UNCHANGED << opts, isTTY, config, packages, i, succeeded, failed,
                    failedPackages, rollbackVersions, curRollback, warned, prompts,
                    history, submitted, serverOutcome, resultsId >>
    /\ UNCHANGED libVars

\* the batch poll returned: the results are fetched (or not), counted and
\* recorded, and the process exits
BatchAfterPoll ==
    /\ pc = "batchPolling"
    /\ PollReturned
    /\ PollDiscard
    /\ pc' = "exited"
    /\ \E outcome \in (IF resultsId THEN FetchOutcomes ELSE {"none"}) :
          LET results == ResultsOrEmbedded(FetchedResults(outcome))
              s == CountSucceeded(results)
              f == CountFailed(results)
          IN  /\ fetchLog' = [issued |-> resultsId, outcome |-> outcome,
                               snapshot |-> lastData, results |-> results]
              /\ succeeded' = s
              /\ failed' = f
              /\ \/ /\ history' = [mode |-> "batch", result |-> BatchResult(s, f),
                                   succeeded |-> s, failed |-> f,
                                   rollbackVersions |-> << >>]
                    /\ exitCode' = BatchExit(s, f)
                 \/ /\ history' = history
                    /\ exitCode' = 2
    /\ UNCHANGED << opts, isTTY, config, packages, i, failedPackages,
                    rollbackVersions, curRollback, warned, prompts, submitted,
                    serverOutcome, resultsId >>
    /\ UNCHANGED << retryVars, tokenVars, reconVars >>
    /\ UNCHANGED << versionVars, confirmVars, manifestVars, rerunVars, requestVars >>

-----------------------------------------------------------------------------
(* The environment: what the instance may answer *)

MaxItems == 3
MaxRetries == 1
PollBudgetSteps == 3
LatencySteps == 1
\* the time grid of the environment: one default poll interval
StepMs == DefaultPollInterval

Plan == << "x_snc_sec", "x_snc_hr", "x_snc_itsm", "x_snc_csm" >>

PackageLists == {SubSeq(Plan, 1, n) : n \in 1..MaxItems}

\* progress payloads of the app_repo API (numeric status)
dRunning == Data(JNum(1), JNull, JNull, JNum(50), << >>, JNull)
dSucceeded == Data(JNum(2), JNull, JNull, JNum(100), << >>, JNull)
dFailed == Data(JNum(3), JNull, JNull, JNum(100), << >>, JStr(sInstallationFailed))
dStuckAt100 == Data(JNum(1), JNull, JNull, JNum(100), << >>, JNull)

Latencies == {0, LatencySteps * StepMs}

\* failed status checks: rate limited, transient, not found
PollErrors == {ErrResp(429, JNull), ErrResp(503, JNull), ErrResp(404, JNull)}

SeqResponses == {OkResp(d) : d \in {dRunning, dSucceeded, dFailed, dStuckAt100}} \cup PollErrors

\* progress payloads of the batch API (string status), with or without the
\* per-item results embedded
BatchResponses ==
    {OkResp(Data(JStr(sRunning), JNull, JNum(50), JNull, << >>, JNull))}
    \cup {OkResp(Data(JStr(st), JNull, JNum(100), JNull, pk, JNull)) :
            st \in {sComplete, sFailed}, pk \in {<< >>, ServerResults}}
    \cup PollErrors

Responses == IF opts.batch THEN BatchResponses ELSE SeqResponses

Configs ==
    {[retries |-> MaxRetries, backoffBase |-> StepMs, pollInterval |-> StepMs,
      sequentialPollInterval |-> 0, maxPollDuration |-> PollBudgetSteps * StepMs]}

Options ==
    {[continueOnError |-> c, stopOnError |-> s, batch |-> FALSE, concurrency |-> JStr(n)] :
        c \in BOOLEAN, s \in BOOLEAN, n \in {sOne, sTen}}
    \cup {[continueOnError |-> FALSE, stopOnError |-> FALSE, batch |-> TRUE,
           concurrency |-> JStr(sOne)]}

PollIdle ==
    /\ ppc = "idle"
    /\ elapsed = 0
    /\ interval = 0
    /\ consecutiveErrors = 0
    /\ resp = NoResp
    /\ lastData = NoData
    /\ pollErr = NoError
    /\ popts = PollOpts([progressId |-> "", pollInterval |-> 0, maxPollDuration |-> 0,
                         retries |-> -1, backoffBase |-> 0])
    /\ inflight = {}

\* no batch handler is running
TokenIdle ==
    /\ tpc = "idle"
    /\ tool = "none"
    /\ rollbackToken = JNull
    /\ debug = FALSE
    /\ emitted = << >>

\* reconcilePackages is not running
ReconIdle ==
    /\ rpc = "idle"
    /\ manifestPackages = << >>
    /\ targetApps = << >>
    /\ verdicts = << >>

\* upgradeType is not running
VersionIdle ==
    /\ vpc = "idle"
    /\ vfrom = << >>
    /\ vto = << >>
    /\ vtype = ""

\* the confirmation store as the module is loaded: an empty Map
ConfirmIdle ==
    /\ challenges = << >>
    /\ now = 0
    /\ issued = 0
    /\ handedOut = << >>
    /\ validCount = << >>
    /\ lastCall = NoCall

\* readManifest is not running
LoadIdle ==
    /\ mpc = "idle"
    /\ parsedPlan = JNull
    /\ loadOutcome = [kind |-> "none"]

\* buildManifest is not running
ManifestIdle ==
    /\ bpc = "idle"
    /\ supplied = << >>
    /\ manifests = << >>
    /\ LoadIdle

\* a single run of the install command, the instance's versions left aside
RerunIdle ==
    /\ installedOnInstance = {}
    /\ runs = 1

\* runBatchInstall has not come to its results
NoFetch == [issued |-> FALSE, outcome |-> "none", snapshot |-> NoData, results |-> << >>]

FetchIdle == fetchLog = NoFetch

\* no install request is under construction
RequestIdle ==
    /\ qpc = "idle"
    /\ qitem = JNull
    /\ request = JNull

UtilIdle ==
    /\ VersionIdle
    /\ ConfirmIdle
    /\ ManifestIdle
    /\ RerunIdle
    /\ FetchIdle
    /\ RequestIdle

\* withRetry is not running
RetryIdle ==
    /\ wpc = "idle"
    /\ wopts = WithRetryOpts([retries |-> -1, backoffBase |-> 0])
    /\ attempt = 0
    /\ lastError = NoError
    /\ fnCalls = 0
    /\ waits = << >>
    /\ wresult = NoResult

\* the terminal statuses C6 lists: numeric 2 or 3, or complete / success /
\* failed in any letter case
ListedTerminalStatuses ==
    {JNum(2), JNum(3), JStr(sSuccess), JStr(sSUCCESS), JStr(sComplete),
     JStr(sCompleteCap), JStr(sFailed), JStr(sFailedCap)}

\* the success and failure signals of C7, in both encodings; a string that
\* parses to the code counts as the code
SuccessSignals ==
    {JNum(2), JStr(sTwo), JStr(sSuccess), JStr(sSUCCESS), JStr(sComplete), JStr(sCompleteCap)}

FailureSignals == {JNum(3), JStr(sThree), JStr(sFailed), JStr(sFailedCap)}

\* the statuses C11 lists as transient
TransientStatuses == {500, 502, 503, 504}

\* the statuses C12 lists as retried
RetryableStatuses == {429, 500, 502, 503, 504}

\* The values the environment draws from are evaluated once, before the
\* first step: a value is brought to its normal form where it is first
\* compared, and for the values every behaviour shares that is here.
EnvironmentFixed ==
    /\ LET env ==
               << JNull, NaN, NoData, NoResp, NoError, RETRYABLE_STATUSES,
                  NoResult, SENSITIVE_KEY_PATTERNS, NoVersion, NoCall,
                  NoEntry, FetchOutcomes,
                  PackageLists, dRunning, dSucceeded, dFailed, dStuckAt100,
                  Latencies, PollErrors, SeqResponses, Configs, Options,
                  NoFetch, ListedTerminalStatuses, SuccessSignals,
                  FailureSignals, TransientStatuses, RetryableStatuses >>
       IN  env = env

Init ==
    /\ EnvironmentFixed
    /\ opts \in Options
    /\ isTTY \in BOOLEAN
    /\ config \in Configs
    /\ packages \in PackageLists
    /\ pc = "validate"
    /\ i = 1
    /\ succeeded = 0
    /\ failed = 0
    /\ failedPackages = << >>
    /\ rollbackVersions = << >>
    /\ curRollback = ""
    /\ warned = FALSE
    /\ prompts = 0
    /\ history = NoEntry
    /\ exitCode = -1
    /\ submitted = << >>
    /\ serverOutcome = << >>
    /\ resultsId = FALSE
    /\ PollIdle
    /\ RetryIdle
    /\ TokenIdle
    /\ ReconIdle
    /\ UtilIdle

Next ==
    \/ ValidateConcurrency
    \/ Preflight
    \/ SeqSubmit({"", "prev"}, {SubmitError(401)})
    \/ SeqAfterPoll
    \/ SeqCatchPoll
    \/ SeqPrompt
    \/ SeqRecord
    \/ BatchSubmit
    \/ BatchPollThrew
    \/ BatchAfterPoll
    \/ PollLoopHead
    \/ PollReceive(Responses, {0})
    \/ PollHandle
    \/ PollResume

Spec == Init /\ [][Next]_vars

-----------------------------------------------------------------------------
(* pollProgress alone, driven as the integration tests drive it:             *)
(* for await (const data of pollProgress(client, id, opts)) push(data)       *)

\* status values a progress payload may carry, in both encodings
PollStatuses ==
    {JNum(0), JNum(1), JNum(2), JNum(3), JNull,
     JStr(sSuccess), JStr(sSUCCESS), JStr(sComplete), JStr(sCompleteCap),
     JStr(sFailed), JStr(sFailedCap), JStr(sRunning), JStr(sPending),
     JStr(sTwo), JStr(sThree), JStr(sGarbage)}

\* (percentComplete, percent_complete) pairs
PollPercents ==
    {<< JNull, JNull >>, << JNum(50), JNull >>, << JNull, JNum(50) >>,
     << JNum(100), JNull >>, << JNull, JNum(100) >>, << JNull, JNum(120) >>}

PollPayloads ==
    {Data(st, JNull, p[1], p[2], << >>, JNull) : st \in PollStatuses, p \in PollPercents}
    \cup {Data(JNull, st, JNull, JNum(50), << >>, JNull) :
            st \in {JNum(2), JStr(sFailedCap), JStr(sRunning)}}

RetryAfterHints ==
    {JNull, JStr(sTen), JStr(sOne), JStr(sZero), JStr(sMinusFive), JStr(sGarbage),
     JStr(sHttpDate), JStr(sEmpty)}

PollFailures ==
    {ErrResp(429, h) : h \in RetryAfterHints}
    \cup {ErrResp(s, JNull) : s \in {500, 502, 503, 504, 400, 401, 404, 0}}

PollResponses == {OkResp(d) : d \in PollPayloads} \cup PollFailures

HarnessOpts ==
    {[progressId |-> "progress-1", pollInterval |-> StepMs,
      maxPollDuration |-> PollBudgetSteps * StepMs, retries |-> r, backoffBase |-> StepMs] :
        r \in 0..MaxRetries}

\* the answers that matter to whether a run ends: snapshots that are and are
\* not terminal, rate limiting with and without a hint, a transient and a
\* hard failure
LiveResponses ==
    {OkResp(dRunning), OkResp(dSucceeded), OkResp(dStuckAt100)}
    \cup {ErrResp(429, h) : h \in {JNull, JStr(sOne)}}
    \cup {ErrResp(503, JNull), ErrResp(404, JNull)}

\* the same for the values of this specification
PollEnvironmentFixed ==
    /\ EnvironmentFixed
    /\ LET env ==
               << PollStatuses, PollPercents, PollPayloads, RetryAfterHints,
                  PollFailures, PollResponses, HarnessOpts, LiveResponses >>
       IN  env = env

InitPoll ==
    /\ PollEnvironmentFixed
    /\ opts = [continueOnError |-> FALSE, stopOnError |-> FALSE, batch |-> FALSE,
               concurrency |-> JStr(sOne)]
    /\ isTTY = FALSE
    /\ config \in Configs
    /\ packages = << >>
    /\ pc = "harness"
    /\ i = 1
    /\ succeeded = 0
    /\ failed = 0
    /\ failedPackages = << >>
    /\ rollbackVersions = << >>
    /\ curRollback = ""
    /\ warned = FALSE
    /\ prompts = 0
    /\ history = NoEntry
    /\ exitCode = -1
    /\ submitted = << >>
    /\ serverOutcome = << >>
    /\ resultsId = FALSE
    /\ \E o \in HarnessOpts :
          /\ popts = PollOpts(o)
          /\ interval = PollOpts(o).pollInterval
          /\ inflight = {o.progressId}
    /\ ppc = "head"
    /\ elapsed = 0
    /\ consecutiveErrors = 0
    /\ resp = NoResp
    /\ lastData = NoData
    /\ pollErr = NoError
    /\ RetryIdle
    /\ TokenIdle
    /\ ReconIdle
    /\ UtilIdle

NextPoll ==
    \/ PollLoopHead
    \/ PollReceive(PollResponses, Latencies)
    \/ PollHandle
    \/ PollResume

SpecPoll == InitPoll /\ [][NextPoll]_vars

NextPollLive ==
    \/ PollLoopHead
    \/ PollReceive(LiveResponses, Latencies)
    \/ PollHandle
    \/ PollResume

\* the event loop resumes the generator whenever a timer has fired or a
\* status check has been answered or has failed
SpecPollLive == InitPoll /\ [][NextPollLive]_vars /\ WF_vars(NextPollLive)

-----------------------------------------------------------------------------
(* withRetry alone, driven as the unit tests drive it:                       *)
(* await withRetry(() => { attempts++; throw err / return 'ok' }, opts)      *)

\* what the wrapped operation may do: resolve, or reject with an axios error
\* (status 0: a network failure or timeout, no response)
FnOutcomes ==
    {OkResp(NoData)}
    \cup {ErrResp(429, h) : h \in RetryAfterHints}
    \cup {ErrResp(s, JNull) : s \in {500, 502, 503, 504, 400, 401, 403, 404, 0}}

\* retries and backoffBase left to their defaults (-1 and 0) or given
RetryHarnessOpts == {[retries |-> r, backoffBase |-> b] : r \in (-1)..MaxRetries, b \in {0, StepMs}}

\* the same for the values of this specification
RetryEnvironmentFixed ==
    /\ PollEnvironmentFixed
    /\ LET env ==
               << FnOutcomes, RetryHarnessOpts >>
       IN  env = env

InitRetry ==
    /\ RetryEnvironmentFixed
    /\ opts = [continueOnError |-> FALSE, stopOnError |-> FALSE, batch |-> FALSE,
               concurrency |-> JStr(sOne)]
    /\ isTTY = FALSE
    /\ config \in Configs
    /\ packages = << >>
    /\ pc = "harness"
    /\ i = 1
    /\ succeeded = 0
    /\ failed = 0
    /\ failedPackages = << >>
    /\ rollbackVersions = << >>
    /\ curRollback = ""
    /\ warned = FALSE
    /\ prompts = 0
    /\ history = NoEntry
    /\ exitCode = -1
    /\ submitted = << >>
    /\ serverOutcome = << >>
    /\ resultsId = FALSE
    /\ PollIdle
    /\ wpc = "loop"
    /\ \E o \in RetryHarnessOpts : wopts = WithRetryOpts(o)
    /\ attempt = 0
    /\ lastError = NoError
    /\ fnCalls = 0
    /\ waits = << >>
    /\ wresult = NoResult
    /\ TokenIdle
    /\ ReconIdle
    /\ UtilIdle

NextRetry == WithRetryAttempt(FnOutcomes)

SpecRetry == InitRetry /\ [][NextRetry]_vars

-----------------------------------------------------------------------------
(* The rollback token in runBatchInstall (install.js), the batch branch of   *)
(* rollbackCommand (rollback.js) and the snbatch_install / snbatch_rollback  *)
(* tool handlers: what each writes to history, log, console and tool result  *)

sProgressId == << 112, 114, 111, 103, 114, 101, 115, 115, 45, 97, 98, 99, 45, 49, 50, 51 >>
sResultsId == << 114, 101, 115, 117, 108, 116, 115, 45, 49 >>

Tools == {"cli-install", "cli-rollback", "mcp-install", "mcp-rollback"}

\* failed === 0 ? 'success' : succeeded === 0 ? 'failed' : 'partial'
ResultOf(s, f) ==
    JStr(IF f = 0 THEN sSuccess ELSE IF s = 0 THEN sFailed
         ELSE << 112, 97, 114, 116, 105, 97, 108 >>)

\* the history entry's fields (id, timestamp, instance, profile and packages
\* left out: none of them is computed from the token)
HistoryEntry(result, hash, hint) ==
    Emit("history", << << kResult, result >>, << kProgressId, JStr(sProgressId) >>,
                       << kRollbackTokenHash, hash >>, << kRollbackTokenHint, hint >> >>)

\* the handler's catch: printError(err.message) resp. safeErr(e)
HandlerFailed(status) ==
    IF tool \in {"cli-install", "cli-rollback"}
    THEN << ConsoleLine(tErrorMessage, JNum(status)) >>
    ELSE << ConsoleLine(tErrorMessage, JNum(status)),
            Emit("tool", << << kResult, JStr(sFailed) >> >>) >>

\* runBatchInstall up to the poll: startBatchInstall returns the token; the
\* hint goes to the log and, with --debug, to the console
CliInstallSubmit(Tokens) ==
    /\ tpc = "start" /\ tool = "cli-install"
    /\ \/ \E tok \in Tokens \cup {JNull} :
            /\ rollbackToken' = tok
            /\ emitted' = emitted
                 \o << LogLine(<< << kProgressId, JStr(sProgressId) >>,
                                  << kRollbackTokenHint, TokenHint(tok) >>,
                                  << kResultsId, JStr(sResultsId) >> >>) >>
                 \o (IF debug THEN << ConsoleLine(tDebugSubmission, TokenHint(tok)) >>
                     ELSE << >>)
            /\ tpc' = "polling"
       \/ /\ emitted' = emitted \o HandlerFailed(401)
          /\ tpc' = "done"
          /\ UNCHANGED rollbackToken
    /\ UNCHANGED << tool, debug >>
    /\ UNCHANGED << execVars, pollVars, retryVars, reconVars >>
    /\ UNCHANGED utilVars

\* runBatchInstall after the poll: history entry, log line, closing message
CliInstallRecord ==
    /\ tpc = "polling" /\ tool = "cli-install"
    /\ tpc' = "done"
    /\ \/ \E s \in 0..MaxItems, f \in 0..MaxItems :
            /\ s + f <= MaxItems
            /\ emitted' = emitted
                 \o << HistoryEntry(ResultOf(s, f), TokenHash(rollbackToken),
                                    TokenHint(rollbackToken)),
                       LogLine(<< << kSucceeded, JNum(s) >>, << kFailed, JNum(f) >>,
                                  << kRollbackTokenHint, TokenHint(rollbackToken) >> >>) >>
                 \o (IF f > 0 /\ s > 0
                     THEN << ConsoleLine(tPartial, TokenHint(rollbackToken)) >>
                     ELSE IF f > 0
                     THEN << ConsoleLine(tAllFailed, TokenHint(rollbackToken)) >>
                     ELSE IF TokenHint(rollbackToken) # JNull
                     THEN << ConsoleLine(tRollbackToken, TokenHint(rollbackToken)) >>
                     ELSE << >>)
       \/ emitted' = emitted \o HandlerFailed(500)
    /\ UNCHANGED << tool, debug, rollbackToken >>
    /\ UNCHANGED << execVars, pollVars, retryVars, reconVars >>
    /\ UNCHANGED utilVars

\* rollbackCommand, batch branch, up to the poll: the token is sent to the
\* instance and handed to the logger
CliRollbackSubmit ==
    /\ tpc = "start" /\ tool = "cli-rollback"
    /\ \/ /\ emitted' = Append(emitted,
                 LogLine(<< << kProgressId, JStr(sProgressId) >>,
                            << kRollbackToken, rollbackToken >> >>))
          /\ tpc' = "polling"
       \/ /\ emitted' = emitted \o HandlerFailed(401)
          /\ tpc' = "done"
    /\ UNCHANGED << tool, debug, rollbackToken >>
    /\ UNCHANGED << execVars, pollVars, retryVars, reconVars >>
    /\ UNCHANGED utilVars

\* rollbackCommand, batch branch, after the poll
CliRollbackRecord ==
    /\ tpc = "polling" /\ tool = "cli-rollback"
    /\ tpc' = "done"
    /\ \/ emitted' = emitted
            \o << HistoryEntry(JStr(sSuccess), hashRollbackToken(rollbackToken),
                               JStr(sEllipsis \o TokenLast4(rollbackToken).s)),
                  LogLine(<< << kProgressId, JStr(sProgressId) >> >>),
                  ConsoleLine(tRollbackDone, JNull) >>
       \/ emitted' = emitted \o HandlerFailed(500)
    /\ UNCHANGED << tool, debug, rollbackToken >>
    /\ UNCHANGED << execVars, pollVars, retryVars, reconVars >>
    /\ UNCHANGED utilVars

\* snbatch_install up to the poll: nothing is written
McpInstallSubmit(Tokens) ==
    /\ tpc = "start" /\ tool = "mcp-install"
    /\ \/ \E tok \in Tokens \cup {JNull} :
            /\ rollbackToken' = tok
            /\ emitted' = emitted
            /\ tpc' = "polling"
       \/ /\ emitted' = emitted \o HandlerFailed(401)
          /\ tpc' = "done"
          /\ UNCHANGED rollbackToken
    /\ UNCHANGED << tool, debug >>
    /\ UNCHANGED << execVars, pollVars, retryVars, reconVars >>
    /\ UNCHANGED utilVars

\* snbatch_install after the poll: history entry and the returned result
McpInstallRecord ==
    /\ tpc = "polling" /\ tool = "mcp-install"
    /\ tpc' = "done"
    /\ \/ \E s \in 0..MaxItems, f \in 0..MaxItems :
            LET tokenHash == TokenHash(rollbackToken)
                tokenHint == IF Truthy(rollbackToken) THEN TokenLast4(rollbackToken)
                             ELSE JNull
            IN  /\ s + f <= MaxItems
                /\ emitted' = emitted
                     \o << HistoryEntry(ResultOf(s, f), tokenHash, tokenHint),
                           Emit("tool",
                                << << kResult, ResultOf(s, f) >>,
                                   << kProgressId, JStr(sProgressId) >>,
                                   << kRollbackTokenHint,
                                      IF Truthy(tokenHint)
                                      THEN JStr(sEllipsis \o tokenHint.s) ELSE JNull >>,
                                   << kSucceeded, JNum(s) >>, << kFailed, JNum(f) >> >>) >>
       \/ emitted' = emitted \o HandlerFailed(500)
    /\ UNCHANGED << tool, debug, rollbackToken >>
    /\ UNCHANGED << execVars, pollVars, retryVars, reconVars >>
    /\ UNCHANGED utilVars

\* snbatch_rollback up to the poll: the token is sent to the instance
McpRollbackSubmit ==
    /\ tpc = "start" /\ tool = "mcp-rollback"
    /\ \/ /\ emitted' = emitted
          /\ tpc' = "polling"
       \/ /\ emitted' = emitted \o HandlerFailed(401)
          /\ tpc' = "done"
    /\ UNCHANGED << tool, debug, rollbackToken >>
    /\ UNCHANGED << execVars, pollVars, retryVars, reconVars >>
    /\ UNCHANGED utilVars

\* snbatch_rollback after the poll: history entry and the returned result
McpRollbackRecord ==
    /\ tpc = "polling" /\ tool = "mcp-rollback"
    /\ tpc' = "done"
    /\ \/ emitted' = emitted
            \o << HistoryEntry(JStr(sSuccess), hashRollbackToken(rollbackToken),
                               TokenLast4(rollbackToken)),
                  Emit("tool", << << kResult, JStr(sComplete) >>,
                                  << kProgressId, JStr(sProgressId) >> >>) >>
       \/ emitted' = emitted \o HandlerFailed(500)
    /\ UNCHANGED << tool, debug, rollbackToken >>
    /\ UNCHANGED << execVars, pollVars, retryVars, reconVars >>
    /\ UNCHANGED utilVars

-----------------------------------------------------------------------------
(* One batch install or batch rollback, from the CLI or through the MCP tool *)

\* rollback tokens an instance hands out: opaque ids, longer than the hint
RollbackTokens ==
    {JStr(<< 114, 111, 108, 108, 98, 97, 99, 107, 45, 116, 111, 107, 101, 110, 45, 120, 121, 122 >>),
     JStr(<< 48, 102, 51, 97, 57, 99, 52, 49, 100, 50 >>),
     JStr(<< 116, 111, 107, 101, 110 >>)}

\* the same for the values of this specification
TokenEnvironmentFixed ==
    /\ RetryEnvironmentFixed
    /\ LET env ==
               << Tools, RollbackTokens >>
       IN  env = env

InitToken ==
    /\ TokenEnvironmentFixed
    /\ opts = [continueOnError |-> FALSE, stopOnError |-> FALSE, batch |-> TRUE,
               concurrency |-> JStr(sOne)]
    /\ isTTY = FALSE
    /\ config \in Configs
    /\ packages = << >>
    /\ pc = "harness"
    /\ i = 1
    /\ succeeded = 0
    /\ failed = 0
    /\ failedPackages = << >>
    /\ rollbackVersions = << >>
    /\ curRollback = ""
    /\ warned = FALSE
    /\ prompts = 0
    /\ history = NoEntry
    /\ exitCode = -1
    /\ submitted = << >>
    /\ serverOutcome = << >>
    /\ resultsId = FALSE
    /\ PollIdle
    /\ RetryIdle
    /\ tpc = "start"
    /\ tool \in Tools
    /\ debug \in (IF tool \in {"cli-install"} THEN BOOLEAN ELSE {FALSE})
    /\ rollbackToken \in (IF tool \in {"cli-rollback", "mcp-rollback"} THEN RollbackTokens
                          ELSE {JNull})
    /\ emitted = << >>
    /\ ReconIdle
    /\ UtilIdle

NextToken ==
    \/ CliInstallSubmit(RollbackTokens)
    \/ CliInstallRecord
    \/ CliRollbackSubmit
    \/ CliRollbackRecord
    \/ McpInstallSubmit(RollbackTokens)
    \/ McpInstallRecord
    \/ McpRollbackSubmit
    \/ McpRollbackRecord

SpecToken == InitToken /\ [][NextToken]_vars

-----------------------------------------------------------------------------
(* reconcilePackages alone, called as the unit tests call it *)

MaxSourceItems == 2
MaxTargetApps == 2

vOneZero == << 49, 46, 48 >>
vOneZeroZero == << 49, 46, 48, 46, 48 >>
vOneTwo == << 49, 46, 50 >>
vOneTwoOne == << 49, 46, 50, 46, 49 >>

SourceItems ==
    {[scope |-> s, currentVersion |-> c, targetVersion |-> v] :
        s \in {"app_a", "app_b"}, c \in {vOneZero, vOneZeroZero},
        v \in {vOneZeroZero, vOneTwo, vOneTwoOne}}

TargetApps ==
    {[scope |-> s, version |-> v] :
        s \in {"app_a", "app_extra"}, v \in {vOneZero, vOneTwo, vOneTwoOne}}

SeqsUpTo(S, n) == UNION {[1..m -> S] : m \in 0..n}

\* the same for the values of this specification
ReconcileEnvironmentFixed ==
    /\ TokenEnvironmentFixed
    /\ LET env ==
               << SourceItems, TargetApps >>
       IN  env = env

InitReconcile ==
    /\ ReconcileEnvironmentFixed
    /\ opts = [continueOnError |-> FALSE, stopOnError |-> FALSE, batch |-> FALSE,
               concurrency |-> JStr(sOne)]
    /\ isTTY = FALSE
    /\ config \in Configs
    /\ packages = << >>
    /\ pc = "harness"
    /\ i = 1
    /\ succeeded = 0
    /\ failed = 0
    /\ failedPackages = << >>
    /\ rollbackVersions = << >>
    /\ curRollback = ""
    /\ warned = FALSE
    /\ prompts = 0
    /\ history = NoEntry
    /\ exitCode = -1
    /\ submitted = << >>
    /\ serverOutcome = << >>
    /\ resultsId = FALSE
    /\ PollIdle
    /\ RetryIdle
    /\ TokenIdle
    /\ rpc = "call"
    /\ manifestPackages \in SeqsUpTo(SourceItems, MaxSourceItems)
    /\ targetApps \in SeqsUpTo(TargetApps, MaxTargetApps)
    /\ verdicts = << >>
    /\ UtilIdle

NextReconcile == Reconcile

SpecReconcile == InitReconcile /\ [][NextReconcile]_vars

-----------------------------------------------------------------------------
(* upgradeType alone, called as the unit tests call it *)

MaxSegment == 2

\* the install command is not running
HarnessIdle ==
    /\ opts = [continueOnError |-> FALSE, stopOnError |-> FALSE, batch |-> FALSE,
               concurrency |-> JStr(sOne)]
    /\ isTTY = FALSE
    /\ config \in Configs
    /\ packages = << >>
    /\ pc = "harness"
    /\ i = 1
    /\ succeeded = 0
    /\ failed = 0
    /\ failedPackages = << >>
    /\ rollbackVersions = << >>
    /\ curRollback = ""
    /\ warned = FALSE
    /\ prompts = 0
    /\ history = NoEntry
    /\ exitCode = -1
    /\ submitted = << >>
    /\ serverOutcome = << >>
    /\ resultsId = FALSE

\* segment values: small ones and a two-digit one
Segments == (0..MaxSegment) \cup {10}

RECURSIVE JoinDots(_)
\* the version string of a list of segment values: [1, 2, 0] is '1.2.0'
JoinDots(p) ==
    IF Len(p) = 1 THEN DecimalDigits(p[1])
    ELSE DecimalDigits(p[1]) \o << 46 >> \o JoinDots(Tail(p))

\* version strings of one, two and three segments
VersionStrings == {JoinDots(p) : p \in UNION {[1..n -> Segments] : n \in 1..3}}

\* the same for the values of this specification
VersionEnvironmentFixed ==
    /\ ReconcileEnvironmentFixed
    /\ LET env ==
               << Segments, VersionStrings >>
       IN  env = env

InitVersion ==
    /\ VersionEnvironmentFixed
    /\ HarnessIdle
    /\ PollIdle
    /\ RetryIdle
    /\ TokenIdle
    /\ ReconIdle
    /\ vpc = "call"
    /\ vfrom \in VersionStrings
    /\ vto \in VersionStrings
    /\ vtype = ""
    /\ ConfirmIdle
    /\ ManifestIdle
    /\ RerunIdle
    /\ FetchIdle
    /\ RequestIdle

NextVersion ==
    \/ UpgradeTypeCall
    \/ CompareVersionsCall

SpecVersion == InitVersion /\ [][NextVersion]_vars

-----------------------------------------------------------------------------
(* snbatch install --manifest <file>, run again with the same manifest file  *)
(* once the first run is over (sequential mode)                              *)

RunsPerManifest == 2

\* the scopes of a sequence of failure records
FailedScopes(records) == {records[k].scope : k \in DOMAIN records}

\* the items the run that is over has brought to their target version: those
\* whose job ended with a success status
InstalledByRun == {submitted[k] : k \in DOMAIN submitted} \ FailedScopes(failedPackages)

\* the command is started again: readManifest(opts.manifest) yields the same
\* packages, and the executor's locals are fresh
Rerun ==
    /\ pc = "exited"
    /\ runs < RunsPerManifest
    /\ runs' = runs + 1
    /\ installedOnInstance' = installedOnInstance \cup InstalledByRun
    /\ pc' = "validate"
    /\ i' = 1
    /\ succeeded' = 0
    /\ failed' = 0
    /\ failedPackages' = << >>
    /\ rollbackVersions' = << >>
    /\ curRollback' = ""
    /\ warned' = FALSE
    /\ prompts' = 0
    /\ history' = NoEntry
    /\ exitCode' = -1
    /\ submitted' = << >>
    /\ UNCHANGED << opts, isTTY, config, packages, serverOutcome, resultsId >>
    /\ UNCHANGED << pollVars, retryVars, tokenVars, reconVars >>
    /\ UNCHANGED << versionVars, confirmVars, manifestVars, fetchVars, requestVars >>

InitRerun ==
    /\ VersionEnvironmentFixed
    /\ opts \in {o \in Options : ~o.batch /\ o.concurrency = JStr(sOne)}
    /\ isTTY \in BOOLEAN
    /\ config \in Configs
    /\ packages \in PackageLists
    /\ pc = "validate"
    /\ i = 1
    /\ succeeded = 0
    /\ failed = 0
    /\ failedPackages = << >>
    /\ rollbackVersions = << >>
    /\ curRollback = ""
    /\ warned = FALSE
    /\ prompts = 0
    /\ history = NoEntry
    /\ exitCode = -1
    /\ submitted = << >>
    /\ serverOutcome = << >>
    /\ resultsId = FALSE
    /\ PollIdle
    /\ RetryIdle
    /\ TokenIdle
    /\ ReconIdle
    /\ UtilIdle

NextRerun ==
    \/ ValidateConcurrency
    \/ Preflight
    \/ SeqSubmit({"", "prev"}, {SubmitError(401)})
    \/ SeqAfterPoll
    \/ SeqCatchPoll
    \/ SeqPrompt
    \/ SeqRecord
    \/ PollLoopHead
    \/ PollReceive(Responses, {0})
    \/ PollHandle
    \/ PollResume
    \/ Rerun

SpecRerun == InitRerun /\ [][NextRerun]_vars

-----------------------------------------------------------------------------
(* The confirmation store, called directly as the unit tests call it and     *)
(* through the snbatch_install and snbatch_rollback tool handlers            *)

MaxChallenges == 2

\* 'dev.service-now.com', the instance host of the profile in use
sHostDev == << 100, 101, 118, 46, 115, 101, 114, 118, 105, 99, 101, 45, 110, 111, 119, 46, 99, 111, 109 >>
\* what a user may type: the host with scheme, capitals and a trailing slash,
\* or another host
sHostTyped == << 32, 72, 84, 84, 80, 83, 58, 47, 47, 68, 101, 118, 46, 83, 101, 114, 118, 105, 99, 101, 45, 78, 111, 119, 46, 99, 111, 109, 47 >>
sHostProd == << 112, 114, 111, 100, 46, 115, 101, 114, 118, 105, 99, 101, 45, 110, 111, 119, 46, 99, 111, 109 >>

ConfirmValues == {sHostTyped, sHostProd}

\* confirmationValue ?? '' as a tool client may pass it
GateValues == {sHostTyped, << >>}

\* the operation argument of verifyConfirmation; "" stands for undefined
ConfirmOperations == {"install", "rollback", ""}

\* the packages an install is asked for: patches only, or a major among them
ToolPackages ==
    {<< [upgradeType |-> "patch"] >>,
     << [upgradeType |-> "major"], [upgradeType |-> "patch"] >>}

\* the times at which calls are made: right away, at the end of the first
\* token's life and a millisecond after it
ClockValues == {TOKEN_TTL_MS, TOKEN_TTL_MS + 1}

\* the instance hosts of the profiles a call may name
GateHosts == {sHostDev, sHostProd}

\* the same for the values of this specification
ConfirmEnvironmentFixed ==
    /\ VersionEnvironmentFixed
    /\ LET env ==
               << ConfirmValues, GateValues, ConfirmOperations, ToolPackages,
                  ClockValues, GateHosts >>
       IN  env = env

InitConfirm ==
    /\ ConfirmEnvironmentFixed
    /\ HarnessIdle
    /\ PollIdle
    /\ RetryIdle
    /\ TokenIdle
    /\ ReconIdle
    /\ UtilIdle

NextConfirm ==
    \/ IssueConfirmationChallenge({sHostDev}, {"install", "rollback"}, MaxChallenges)
    \/ VerifyConfirmation(ConfirmValues, ConfirmOperations)
    \/ ClockAdvance(ClockValues)

SpecConfirm == InitConfirm /\ [][NextConfirm]_vars

\* the two tool handlers, called by a client in any order with any arguments
NextGate ==
    \/ \E host \in GateHosts : McpInstallGate(ToolPackages, host, GateValues, MaxChallenges)
    \/ \E host \in GateHosts : McpRollbackGate(host, GateValues, MaxChallenges)
    \/ ClockAdvance(ClockValues)

SpecGate == InitConfirm /\ [][NextGate]_vars

-----------------------------------------------------------------------------
(* buildManifest alone, called twice with the same items in two orders, as   *)
(* the unit test 'is deterministic' calls it                                 *)

MaxManifestItems == 3

sScopeA == << 97, 95, 115, 99, 111, 112, 101 >>
sScopeM == << 109, 95, 115, 99, 111, 112, 101 >>
sScopeZ == << 122, 95, 115, 99, 111, 112, 101 >>
sSysA == << 97 >>
sSysA2 == << 97, 50 >>
sSysM == << 109 >>
sSysZ == << 122 >>

\* the items a scan or a source manifest may hold; two of them have the same
\* scope and differ in what is to be installed
ManifestItems ==
    {[sysId |-> sSysZ, scope |-> sScopeZ, targetVersion |-> vOneTwo, upgradeType |-> "minor"],
     [sysId |-> sSysA, scope |-> sScopeA, targetVersion |-> vOneZeroZero, upgradeType |-> "patch"],
     [sysId |-> sSysM, scope |-> sScopeM, targetVersion |-> vOneTwoOne, upgradeType |-> "major"],
     [sysId |-> sSysA2, scope |-> sScopeA, targetVersion |-> vOneTwo, upgradeType |-> "minor"]}

\* the lists that hold every item of a set once
OrdersOf(S) ==
    {q \in [1..Cardinality(S) -> S] : \A j, k \in DOMAIN q : j # k => q[j] # q[k]}

ItemSets == {S \in SUBSET ManifestItems : Cardinality(S) \in 1..MaxManifestItems}

\* the times of the two calls, in milliseconds
BuildTimes == {0, 1}

\* the same for the values of this specification
ManifestEnvironmentFixed ==
    /\ ConfirmEnvironmentFixed
    /\ LET env ==
               << ManifestItems, ItemSets, BuildTimes >>
       IN  env = env

InitManifest ==
    /\ ManifestEnvironmentFixed
    /\ HarnessIdle
    /\ PollIdle
    /\ RetryIdle
    /\ TokenIdle
    /\ ReconIdle
    /\ VersionIdle
    /\ ConfirmIdle
    /\ RerunIdle
    /\ FetchIdle
    /\ RequestIdle
    /\ bpc = "call"
    /\ \E S \in ItemSets : supplied \in {<< a, b >> : a \in OrdersOf(S), b \in OrdersOf(S)}
    /\ manifests = << >>
    /\ LoadIdle

NextManifest == BuildManifestCall(BuildTimes)

SpecManifest == InitManifest /\ [][NextManifest]_vars

-----------------------------------------------------------------------------
(* readManifest, of a file that buildManifest and writeManifest produced or  *)
(* of a file written by hand                                                 *)

MaxPlanItems == 2

\* the elements a packages array written by hand may hold
PlanItems ==
    {JNull,
     JObject([scope |-> JStr(sScopeA), sysId |-> JStr(sSysA)]),
     JObject([scope |-> JStr(sScopeA), sysId |-> JStr(sSysA2)]),
     JObject([scope |-> JStr(sScopeM), sysId |-> JStr(sSysM)]),
     JObject([sysId |-> JStr(sSysA)]),
     JObject([scope |-> JStr(sScopeA)]),
     JObject([targetVersion |-> JStr(vOneTwo)])}

PlanPackages ==
    {JNull, JStr(sScopeA)}
    \cup {JArray(items) : items \in UNION {[1..n -> PlanItems] : n \in 0..MaxPlanItems}}

\* 99 is the version the unit test rejects
PlanVersions == {JNum(MANIFEST_VERSION), JNum(99), JNull}

PlanMetadata == {JNull, JObject([instance |-> JStr(sInstanceUrl)]), JObject([profile |-> JStr(sProfileDev)])}

\* what JSON.parse may return for a file written by hand
HandWrittenPlans ==
    {JNull, JNum(5)}
    \cup {JObject([manifestVersion |-> v, metadata |-> m, packages |-> p]) :
            v \in PlanVersions, m \in PlanMetadata, p \in PlanPackages}

\* the same for the values of this specification
LoadEnvironmentFixed ==
    /\ ManifestEnvironmentFixed
    /\ LET env ==
               << PlanItems, PlanPackages, PlanVersions, PlanMetadata,
                  HandWrittenPlans >>
       IN  env = env

InitLoad ==
    /\ LoadEnvironmentFixed
    /\ HarnessIdle
    /\ PollIdle
    /\ RetryIdle
    /\ TokenIdle
    /\ ReconIdle
    /\ VersionIdle
    /\ ConfirmIdle
    /\ RerunIdle
    /\ FetchIdle
    /\ RequestIdle
    /\ manifests = << >>
    /\ loadOutcome = [kind |-> "none"]
    /\ \/ /\ bpc = "call"
          /\ \E S \in ItemSets : supplied \in {<< a >> : a \in OrdersOf(S)}
          /\ mpc = "idle"
          /\ parsedPlan = JNull
       \/ /\ bpc = "idle"
          /\ supplied = << >>
          /\ mpc = "call"
          /\ parsedPlan \in HandWrittenPlans

NextLoad ==
    \/ BuildManifestCall(BuildTimes)
    \/ WriteManifestCall
    \/ ReadManifestCall

SpecLoad == InitLoad /\ [][NextLoad]_vars

-----------------------------------------------------------------------------
(* The install request of one manifest item, on either path *)

\* manifest items as snbatch preview writes them: loadDemoData true or false,
\* or absent in a manifest written by hand or by scan
RequestItems ==
    {JObject([scope |-> JStr(sc), targetVersion |-> JStr(v), hasDemoData |-> JBool(h)] @@ d) :
        sc \in {sScopeA, sScopeM, sScopeZ}, v \in {vOneTwo, vOneTwoOne, vOneZeroZero},
        h \in BOOLEAN,
        d \in {<< >>, [loadDemoData |-> JBool(TRUE)], [loadDemoData |-> JBool(FALSE)]}}

\* the same for the values of this specification
RequestEnvironmentFixed ==
    /\ LoadEnvironmentFixed
    /\ LET env ==
               << RequestItems >>
       IN  env = env

InitRequest ==
    /\ RequestEnvironmentFixed
    /\ HarnessIdle
    /\ PollIdle
    /\ RetryIdle
    /\ TokenIdle
    /\ ReconIdle
    /\ VersionIdle
    /\ ConfirmIdle
    /\ ManifestIdle
    /\ RerunIdle
    /\ FetchIdle
    /\ qpc = "call"
    /\ qitem \in RequestItems
    /\ request = JNull

NextRequest ==
    \/ SequentialInstallRequest
    \/ BatchInstallRequest

SpecRequest == InitRequest /\ [][NextRequest]_vars

-----------------------------------------------------------------------------
(* Claims about the install executor, checked under Spec *)

IsPrefix(s, u) == Len(s) <= Len(u) /\ \A k \in 1..Len(s) : s[k] = u[k]

\* C1: in sequential mode, whatever the concurrency option, the items are
\* submitted in the given order, at most one job is being polled at any time,
\* and while a job is being polled it is the job of the last item submitted.
C1_SequentialOneAtATime ==
    ~opts.batch =>
        /\ IsPrefix(submitted, packages)
        /\ Cardinality(inflight) <= 1
        /\ inflight # {} => /\ Len(submitted) = i
                            /\ inflight = {packages[i]}
                            /\ pc = "seqPolling"
        /\ pc = "seqLoop" => Len(submitted) = i - 1

C1_Witness ==
    /\ ~opts.batch
    /\ warned
    /\ pc = "seqPolling"
    /\ ppc = "inflight"
    /\ submitted = << "x_snc_sec", "x_snc_hr", "x_snc_itsm" >>
    /\ inflight = {"x_snc_itsm"}
    /\ succeeded = 1
    /\ failed = 1

NonInteractiveDefault == ~opts.batch /\ ~isTTY /\ ~opts.continueOnError

\* C2: sequential, non-TTY, continue-on-error not set: after the first
\* failure (failed status or thrown error) no later item is submitted, and no
\* prompt is ever issued.
C2_NonTTYHalts ==
    NonInteractiveDefault =>
        /\ prompts = 0
        /\ pc # "seqPrompt"
        /\ failed <= 1
        /\ failed = 1 => /\ Len(submitted) = succeeded + 1
                         /\ failedPackages[1].scope = submitted[Len(submitted)]
                         /\ pc \in {"seqRecord", "exited"} \/ i > total

C2_Witness ==
    /\ NonInteractiveDefault
    /\ ~opts.stopOnError
    /\ total = 3
    /\ pc = "exited"
    /\ Len(submitted) = 2
    /\ failed = 1
    /\ failedPackages[1].error.kind = "http"

HaltOnFirstFailure == ~opts.batch /\ ~opts.continueOnError /\ (opts.stopOnError \/ ~isTTY)

\* C3: sequential with halt on first failure: if item k is the first to fail,
\* exactly items 1..k are submitted, and the recorded result is partial when
\* k > 1 (and failed when k = 1).
C3_HaltSubmitsExactlyUpToFailure ==
    (HaltOnFirstFailure /\ failed >= 1) =>
        LET k == succeeded + 1
        IN  /\ failed = 1
            /\ failedPackages[1].scope = packages[k]
            /\ submitted = SubSeq(packages, 1, k)
            /\ history # NoEntry =>
                  /\ k > 1 => history.result = "partial" /\ exitCode = 1
                  /\ k = 1 => history.result = "failed" /\ exitCode = 2

C3_Witness ==
    /\ HaltOnFirstFailure
    /\ total = 3
    /\ pc = "exited"
    /\ failedPackages # << >>
    /\ failedPackages[1].scope = "x_snc_hr"
    /\ submitted = << "x_snc_sec", "x_snc_hr" >>
    /\ history # NoEntry
    /\ history.result = "partial"

\* C4: in both modes the recorded result is success iff no item failed,
\* failed iff some item failed and none succeeded, partial iff both counts
\* are positive; the exit status is 0, 2, 1 respectively.
C4_AggregateResult ==
    history # NoEntry =>
        /\ history.result \in {"success", "failed", "partial"}
        /\ history.result = "success" <=> failed = 0
        /\ history.result = "failed" <=> (failed >= 1 /\ succeeded = 0)
        /\ history.result = "partial" <=> (failed >= 1 /\ succeeded >= 1)
        /\ history.result = "success" => exitCode = 0
        /\ history.result = "partial" => exitCode = 1
        /\ history.result = "failed" => exitCode = 2

C4_Witness ==
    /\ opts.batch
    /\ history # NoEntry
    /\ history.result = "partial"
    /\ succeeded = 2
    /\ failed = 1
    /\ exitCode = 1

\* every item of the plan was installed successfully
AllInstalled ==
    IF opts.batch
    THEN \A k \in 1..total : serverOutcome[packages[k]] = "ok"
    ELSE succeeded = total

\* C5: a run reports success (recorded result success, exit status 0) only if
\* every item of the plan was installed successfully.
C5_SuccessOnlyIfAllInstalled ==
    (history # NoEntry /\ history.result = "success" /\ exitCode = 0) => AllInstalled

\* C5 holds of the sequential executor
C5_SequentialOnly ==
    (~opts.batch /\ history # NoEntry /\ history.result = "success") => AllInstalled

\* C9: when the poll of an item's job times out during a sequential install,
\* the operation is aborted: no item is submitted after the timed-out one,
\* whatever the halt/continue policy.
C9_TimeoutAbortsRun ==
    ~opts.batch =>
        \A k \in DOMAIN failedPackages :
            failedPackages[k].error.kind = "timeout" =>
                failedPackages[k].scope = submitted[Len(submitted)]

-----------------------------------------------------------------------------
(* Claims about pollProgress, checked under SpecPoll *)

Running == ppc \in {"head", "inflight", "handling"}

\* the status of a payload, as the claims read it
StatusOf(d) == IF d.status # JNull THEN d.status ELSE d.state

\* the percent-complete of a payload, 0 when absent
PercentOf(d) ==
    IF d.percentComplete # JNull THEN d.percentComplete.n
    ELSE IF d.percent_complete # JNull THEN d.percent_complete.n
    ELSE 0

ListedTerminal(d) == StatusOf(d) \in ListedTerminalStatuses \/ PercentOf(d) >= 100

\* C6: pollProgress stops right after the first terminal snapshot: while it
\* is still to issue or handle a status check, no snapshot yielded so far is
\* terminal, and a terminal snapshot is followed by the return at once.
C6_StopsAfterTerminalSnapshot ==
    /\ (Running /\ lastData # NoData) => ~ListedTerminal(lastData)
    /\ (ppc = "returned") => lastData # NoData

C6_StopsAtOnce ==
    [][(ppc = "yielded" /\ ListedTerminal(lastData)) =>
          (ppc' = "returned" /\ lastData' = lastData /\ elapsed' = elapsed)]_vars

\* C6: once a snapshot with a listed terminal status (or 100 percent) has been
\* yielded, polling stops at once: no further status check, no further wait.
C6_Theorem == []C6_StopsAfterTerminalSnapshot /\ C6_StopsAtOnce

C6_Witness ==
    /\ ppc = "returned"
    /\ StatusOf(lastData) = JStr(sPending)
    /\ PercentOf(lastData) = 120
    /\ elapsed > 0

\* C7: isProgressSuccess is true exactly for the success signals (numeric 2,
\* success / complete in any case), false for the failure signals, and
\* pollProgress treats every signal of either encoding as terminal.
C7_StatusNormalization ==
    lastData # NoData =>
        /\ isProgressSuccess(lastData) <=> StatusOf(lastData) \in SuccessSignals
        /\ StatusOf(lastData) \in SuccessSignals \cup FailureSignals => ~Running

C7_Witness ==
    /\ ppc = "returned"
    /\ StatusOf(lastData) = JStr(sSUCCESS)
    /\ PercentOf(lastData) = 50
    /\ isProgressSuccess(lastData)

\* C8 as stated: whenever the run is over with the deadline passed and no
\* terminal snapshot yielded, it ended with the timeout error.
C8_DeadlinePassedMeansTimeout ==
    (ppc = "threw" /\ elapsed >= popts.maxPollDuration) => pollErr.kind = "timeout"

\* C8 amended: when the deadline has passed at the loop condition (no
\* terminal snapshot yielded), pollProgress throws the timeout error, whose
\* message says the operation may still be running server-side; a failed job
\* is a yielded snapshot followed by a normal return, never a thrown error.
C8_TimeoutIsDistinct ==
    /\ pollErr.kind = "timeout" =>
          /\ ppc = "threw"
          /\ elapsed >= popts.maxPollDuration
          /\ lastData # NoData => ~ListedTerminal(lastData)
          /\ pollErr.note = "The operation may still be running server-side."
          /\ pollErr.afterMs = popts.maxPollDuration
    /\ (lastData # NoData /\ StatusOf(lastData) \in FailureSignals) =>
          (ppc \in {"yielded", "returned"} /\ pollErr = NoError)

C8_TimeoutAtLoopHead ==
    [][(ppc = "head" /\ elapsed >= popts.maxPollDuration) =>
          (ppc' = "threw" /\ pollErr'.kind = "timeout")]_vars

\* C8 (amended): a deadline found passed at the top of a poll cycle ends the
\* poll with the timeout error, which is never confused with a job failure and
\* says the operation may still be running server-side.
C8_Theorem == []C8_TimeoutIsDistinct /\ C8_TimeoutAtLoopHead

C8_Witness ==
    /\ ppc = "threw"
    /\ pollErr.kind = "timeout"
    /\ lastData # NoData
    /\ elapsed = popts.maxPollDuration

\* the wait C10 expects for each Retry-After hint of the environment
ExpectedRateLimitWait(hint) ==
    IF hint = JStr(sTen) THEN 10000 ELSE IF hint = JStr(sOne) THEN 1000 ELSE 30000

\* C10: a 429 leaves the consecutive-error count unchanged, waits the
\* Retry-After seconds when that is a positive integer and 30 s otherwise,
\* and goes back to the loop condition; a 429 is never thrown.
C10_RateLimitStep ==
    [][(ppc = "handling" /\ resp.kind = "err" /\ resp.status = 429) =>
          /\ consecutiveErrors' = consecutiveErrors
          /\ interval' = ExpectedRateLimitWait(resp.retryAfter)
          /\ elapsed' = elapsed + ExpectedRateLimitWait(resp.retryAfter)
          /\ ppc' = "head"
          /\ pollErr' = NoError]_vars

C10_NeverThrown == pollErr.kind = "http" => pollErr.status # 429

\* C10: a 429 answer is never thrown and never counted against the transient
\* retry budget; the poll waits the Retry-After hint (30 s without a usable
\* hint) and checks again.
C10_Theorem == []C10_NeverThrown /\ C10_RateLimitStep

C10_Witness ==
    /\ ppc = "head"
    /\ interval = 1000
    /\ popts.retries > 0
    /\ consecutiveErrors = popts.retries
    /\ elapsed < popts.maxPollDuration

\* C11: a failed status check other than a 429 is absorbed (the poll goes
\* back to the loop condition, one more transient error counted) when its
\* status is transient and fewer than `retries` transient errors were
\* counted; otherwise the error itself is thrown.
C11_ErrorStep ==
    [][(ppc = "handling" /\ resp.kind = "err" /\ resp.status # 429) =>
          IF resp.status \in TransientStatuses /\ consecutiveErrors < popts.retries
          THEN /\ ppc' = "head"
               /\ consecutiveErrors' = consecutiveErrors + 1
               /\ pollErr' = NoError
               /\ lastData' = lastData
          ELSE /\ ppc' = "threw"
               /\ pollErr' = [kind |-> "http", status |-> resp.status, afterMs |-> 0,
                              note |-> ""]
               /\ lastData' = lastData]_vars

\* C11: the count is the number of transient errors since the last
\* successful status check: a successful check resets it, and nothing but an
\* absorbed transient error changes it.
C11_CountSinceSuccess ==
    [][/\ (ppc = "handling" /\ resp.kind = "ok") => consecutiveErrors' = 0
       /\ (consecutiveErrors' # consecutiveErrors) =>
             /\ ppc = "handling"
             /\ \/ resp.kind = "ok"
                \/ resp.status \in TransientStatuses /\ consecutiveErrors' = consecutiveErrors + 1]_vars

\* C11: what the consumer receives is a progress payload, never an error,
\* and the ceiling is never exceeded.
C11_ErrorNeverYielded ==
    /\ lastData # NoData => lastData \in PollPayloads
    /\ ppc = "yielded" => (lastData # NoData /\ pollErr = NoError)
    /\ consecutiveErrors <= popts.retries

\* C11: during polling a transient error is thrown exactly when the ceiling
\* of transient errors since the last successful status check is reached,
\* below it the error is absorbed; a non-retryable error is thrown at once;
\* an error is never yielded as a snapshot.
C11_Theorem == []C11_ErrorNeverYielded /\ C11_ErrorStep /\ C11_CountSinceSuccess

C11_Witness ==
    /\ ppc = "threw"
    /\ pollErr.kind = "http"
    /\ pollErr.status \in TransientStatuses
    /\ popts.retries > 0
    /\ consecutiveErrors = popts.retries
    /\ lastData # NoData

\* the longest a status check of the environment is in flight
LongestCheckMs == LatencySteps * StepMs

\* C22: measured from its start, pollProgress is over (terminal snapshot, hard
\* failure or timeout error) no later than maxPollDuration plus the duration
\* of one status check, whatever waits it performs: no wait ends later.
C22_NeverBlocksPastDeadline ==
    ppc \in {"head", "returned", "threw"} =>
        elapsed <= popts.maxPollDuration + LongestCheckMs

-----------------------------------------------------------------------------
(* Claims about withRetry, checked under SpecRetry *)

\* the failure the invocation of this step ended with, if it did
FailedInvocation == fnCalls' = fnCalls + 1 /\ wpc' # "returned"

\* C12: a failure whose status is not in {429, 500, 502, 503, 504} is thrown
\* as it is, at once: no wait and no further invocation; a wait only ever
\* follows a failure with one of those statuses.
C12_NonRetryableStep ==
    [][/\ (FailedInvocation /\ lastError'.status \notin RetryableStatuses) =>
             /\ wpc' = "threw"
             /\ wresult' = Thrown(lastError')
             /\ waits' = waits
       /\ (waits' # waits) =>
             (FailedInvocation /\ lastError'.status \in RetryableStatuses)]_vars

\* C12: a non-retryable error ends withRetry right after the invocation that
\* raised it; as a first failure, after exactly one invocation and no wait.
C12_NonRetryableIsFinal ==
    (wpc = "threw" /\ wresult.value.status \notin RetryableStatuses) =>
        /\ wresult.value = lastError
        /\ fnCalls = Len(waits) + 1
        /\ (attempt = 0 => (fnCalls = 1 /\ waits = << >>))

\* C12: withRetry retries only failures with status 429, 500, 502, 503 or
\* 504; any other failure propagates immediately with the original error,
\* without a wait and without another invocation.
C12_Theorem == []C12_NonRetryableIsFinal /\ C12_NonRetryableStep

C12_Witness ==
    /\ wpc = "threw"
    /\ wresult.value.status = 404
    /\ wopts.retries > 0
    /\ fnCalls = 1
    /\ waits = << >>

\* C13: with retries = N the wrapped operation is invoked at most N+1 times;
\* the first success is returned with no further invocation; after N+1
\* retryable failures the last error is thrown, with no wait after it.
C13_AtMostRetriesPlusOne ==
    /\ fnCalls <= wopts.retries + 1
    /\ fnCalls <= Len(waits) + 1
    /\ (wpc = "returned") =>
          (wresult.kind = "returned" /\ wresult.value.kind = "ok" /\ fnCalls = Len(waits) + 1)
    /\ (wpc = "threw" /\ wresult.value.status \in RetryableStatuses) =>
          /\ fnCalls = wopts.retries + 1
          /\ Len(waits) = wopts.retries
          /\ wresult.value = lastError

\* C13: nothing happens once withRetry has returned or thrown
C13_ReturnIsFinal == [][wpc = "loop"]_vars

\* C13: at most N+1 invocations, the first success ends the call, and
\* exhaustion throws the last error without a trailing wait.
C13_Theorem == []C13_AtMostRetriesPlusOne /\ C13_ReturnIsFinal

C13_Witness ==
    /\ wpc = "threw"
    /\ wresult.value.status = 503
    /\ wopts.retries > 0
    /\ fnCalls = wopts.retries + 1
    /\ Len(waits) = wopts.retries

RECURSIVE Doubling(_)
\* 1, 2, 4, ... for the first, second, third, ... retry
Doubling(k) == IF k = 1 THEN 1 ELSE 2 * Doubling(k - 1)

\* C36: the wait before the k-th retry that follows a retryable failure other
\* than 429 is exactly B * 2^(k-1) ms, B being the base backoff, for k from 1
\* to the number of retries.
C36_BackoffDoubles ==
    [][(waits' # waits /\ lastError'.status # 429) =>
          /\ Len(waits') = Len(waits) + 1
          /\ Len(waits') <= wopts.retries
          /\ waits' = Append(waits, JNum(wopts.backoffBase * Doubling(Len(waits'))))]_vars

\* three retries after failures with status 503: B, 2B and 4B were waited
C36_Witness ==
    /\ Len(waits) = 3
    /\ lastError.status = 503
    /\ waits = << JNum(wopts.backoffBase), JNum(2 * wopts.backoffBase),
                  JNum(4 * wopts.backoffBase) >>

\* C14: the wait that follows a 429 is the Retry-After hint times 1000 ms
\* when the hint is a positive integer and 30 000 ms otherwise; it is never
\* zero, negative or not a number.
C14_RateLimitWaitOrFallback ==
    (wpc = "loop" /\ attempt > 0 /\ lastError.status = 429) =>
        /\ waits[attempt] = JNum(ExpectedRateLimitWait(lastError.retryAfter))
        /\ waits[attempt].t = "number" /\ waits[attempt].n > 0

\* C15: a failure without an HTTP status (a network timeout) is retried: it
\* is propagated only once the retries are used up.
C15_TimeoutIsRetried ==
    (wpc = "threw" /\ wresult.value.status = 0) => fnCalls = wopts.retries + 1

-----------------------------------------------------------------------------
(* More claims about the install executor, checked under Spec *)

\* C16: the rollback records of a sequential run belong to succeeded items
\* only: no item has both a rollback record and a failure record, and there
\* are no more records than succeeded items once the current item is settled.
C16_RollbackRecordsOnlyForSucceeded ==
    ~opts.batch =>
        /\ \A r \in DOMAIN rollbackVersions, f \in DOMAIN failedPackages :
              rollbackVersions[r].scope # failedPackages[f].scope
        /\ (pc = "exited" /\ history # NoEntry) =>
              Len(history.rollbackVersions) <= succeeded

\* C23: with --stop-on-error a sequential install halts at the first failed
\* item without prompting: the first failed item is the last one submitted.
C23_StopOnErrorHalts ==
    (~opts.batch /\ opts.stopOnError /\ failedPackages # << >>) =>
        /\ prompts = 0
        /\ submitted[Len(submitted)] = failedPackages[1].scope

\* the item being polled is settled by this step
SettlesItem == pc = "seqPolling" /\ pc' # "seqPolling"

\* the item being submitted is refused by this step
RefusesItem == pc = "seqLoop" /\ i <= total /\ pc' # "seqPolling" /\ Len(submitted') > Len(submitted)

\* C24: with continue-on-error a sequential install never halts and never
\* prompts: the requests received are the plan's items in order, each once,
\* and the run ends only after the last item (or before the first).
C24_SubmitsEveryItemInOrder ==
    (opts.continueOnError /\ ~opts.batch) =>
        /\ IsPrefix(submitted, packages)
        /\ pc \notin {"seqRecord", "seqPrompt"}
        /\ prompts = 0
        /\ pc = "seqLoop" => Len(submitted) = i - 1
        /\ pc = "seqPolling" => Len(submitted) = i
        /\ pc = "exited" => (submitted = packages \/ (submitted = << >> /\ i = 1))
        /\ Len(failedPackages) = failed
        /\ succeeded + failed = (IF pc = "seqPolling" THEN i - 1 ELSE Len(submitted))

\* C24: an item that fails, by a failed terminal status or by a thrown error,
\* is appended to the failure records with its scope and its reason, and the
\* next item is taken up; an item that succeeds adds no failure record.
C24_FailureStep ==
    (opts.continueOnError /\ ~opts.batch) =>
        /\ (SettlesItem /\ PollReturned /\ isProgressSuccess(lastData)) =>
              (failedPackages' = failedPackages /\ succeeded' = succeeded + 1)
        /\ (SettlesItem /\ PollReturned /\ ~isProgressSuccess(lastData)) =>
              /\ failedPackages' = Append(failedPackages,
                     [scope |-> packages[i],
                      error |-> [kind |-> "status", status |-> 0, afterMs |-> 0,
                                 note |-> IF lastData.status_message = JNull
                                          THEN JStr(sFailedMsg)
                                          ELSE lastData.status_message]])
              /\ i' = i + 1 /\ pc' = "seqLoop"
        /\ (SettlesItem /\ PollThrew) =>
              /\ failedPackages' = Append(failedPackages,
                                          [scope |-> packages[i], error |-> pollErr])
              /\ pollErr.kind \in {"http", "timeout"}
              /\ i' = i + 1 /\ pc' = "seqLoop"
        /\ RefusesItem =>
              /\ Len(failedPackages') = Len(failedPackages) + 1
              /\ failedPackages'[Len(failedPackages')].scope = packages[i]
              /\ failedPackages'[Len(failedPackages')].error.kind = "submit"
              /\ i' = i + 1 /\ pc' = "seqLoop"

\* C24: with continue-on-error set, a sequential install submits every item
\* of the plan exactly once, in order, however many items fail (by failed
\* terminal status or by thrown error), and records every failed item with
\* its reason.
C24_Theorem == []C24_SubmitsEveryItemInOrder /\ [][C24_FailureStep]_vars

\* a run of three items under continue-on-error that is over, with one item
\* failed by its status, one by a thrown error, and all three submitted
C24_Witness ==
    /\ opts.continueOnError /\ ~opts.batch
    /\ pc = "exited" /\ history # NoEntry
    /\ Len(packages) = MaxItems /\ submitted = packages
    /\ failed >= 2
    /\ \E f, g \in DOMAIN failedPackages :
          f < g /\ failedPackages[f].error.kind = "status"
                /\ failedPackages[g].error.kind = "timeout"

\* C33: in batch mode the results fetch is made only once the poll has
\* returned after its terminal snapshot, and only if a results reference was
\* returned; the items counted are the fetched ones if the fetch returned any,
\* and otherwise (no reference, a failed fetch, an empty answer) the ones
\* embedded in the final snapshot; a failed fetch does not end the run, the
\* items are counted all the same.
C33_ResultsFromFetchOrSnapshot ==
    fetchLog # NoFetch =>
        /\ PollTerminal(fetchLog.snapshot)
        /\ fetchLog.issued <=> resultsId
        /\ fetchLog.issued <=> fetchLog.outcome # "none"
        /\ fetchLog.outcome = "items" => fetchLog.results = ServerResults
        /\ fetchLog.outcome \in {"none", "threw", "empty"}
              => fetchLog.results = fetchLog.snapshot.packages
        /\ succeeded = CountSucceeded(fetchLog.results)
        /\ failed = CountFailed(fetchLog.results)
        /\ history # NoEntry =>
              /\ history.result = BatchResult(succeeded, failed)
              /\ exitCode = BatchExit(succeeded, failed)

\* a fetch failed, the items embedded in the snapshot were counted and the run
\* was recorded
C33_Witness ==
    /\ fetchLog.outcome = "threw"
    /\ fetchLog.results # << >>
    /\ history # NoEntry

-----------------------------------------------------------------------------
(* Claims about running a manifest again, checked under SpecRerun *)

\* C25: when a manifest is installed again, no install request is sent for an
\* item whose target version the instance already has: the second run submits
\* only what the first run left outstanding.
C25_RerunSkipsCurrent ==
    runs > 1 => \A k \in DOMAIN submitted : submitted[k] \notin installedOnInstance

-----------------------------------------------------------------------------
(* Claims about the rollback token, checked under SpecToken *)

\* the values written so far, with the sink and key they were written under
Written ==
    UNION {{[sink |-> emitted[k].sink, key |-> emitted[k].fields[j][1],
             value |-> emitted[k].fields[j][2]] : j \in 1..Len(emitted[k].fields)} :
           k \in DOMAIN emitted}

\* the raw token is readable in a written value
ShowsRawToken(v) ==
    /\ rollbackToken.t = "string"
    /\ v.t = "string"
    /\ \E k \in 0..(Len(v.s) - Len(rollbackToken.s)) :
          SubSeq(v.s, k + 1, k + Len(rollbackToken.s)) = rollbackToken.s

\* the token's own last four characters
LastFour == SubSeq(rollbackToken.s, Len(rollbackToken.s) - 3, Len(rollbackToken.s))

-----------------------------------------------------------------------------
(* Claims about reconcilePackages, checked under SpecReconcile *)

SourceScopes == {manifestPackages[k].scope : k \in DOMAIN manifestPackages}
TargetScopes == {targetApps[k].scope : k \in DOMAIN targetApps}
AbsentFromSource == TargetScopes \ SourceScopes

VerdictsFor(scope) == {k \in DOMAIN verdicts : verdicts[k].scope = scope}

VersionRank(v) ==
    IF v \in {<< 49, 46, 48 >>, << 49, 46, 48, 46, 48 >>} THEN 0
    ELSE IF v = << 49, 46, 50 >> THEN 1 ELSE 2

\* the version installed on the target for a scope
InstalledOnTarget(scope) ==
    targetApps[CHOOSE k \in DOMAIN targetApps :
                  /\ targetApps[k].scope = scope
                  /\ \A h \in DOMAIN targetApps : targetApps[h].scope = scope => h <= k].version

\* C19: the verdict of a source item follows from the order of the target's
\* installed version and the item's target version: absent -> not_installed,
\* equal -> already_current, behind -> include, ahead -> target_ahead.
C19_VerdictByVersionOrder ==
    rpc = "returned" =>
        \A k \in DOMAIN manifestPackages :
            LET pkg == manifestPackages[k]
                v == verdicts[k]
            IN  IF pkg.scope \notin TargetScopes
                THEN v.action = "skip" /\ v.reason = "not_installed"
                ELSE LET installed == VersionRank(InstalledOnTarget(pkg.scope))
                         wanted == VersionRank(pkg.targetVersion)
                     IN  /\ (installed = wanted) =>
                               (v.action = "skip" /\ v.reason = "already_current")
                         /\ (installed < wanted) => v.action = "include"
                         /\ (installed > wanted) =>
                               (v.action = "skip" /\ v.reason = "target_ahead")

\* C20: an included item is flagged version_mismatch exactly when the
\* target's installed version and the item's starting version are different
\* versions, and matched when they are the same version.
C20_MismatchComparedAsVersions ==
    rpc = "returned" =>
        \A k \in DOMAIN manifestPackages :
            verdicts[k].action = "include" =>
                LET same == VersionRank(verdicts[k].targetCurrentVersion)
                              = VersionRank(manifestPackages[k].currentVersion)
                IN  verdicts[k].reason = (IF same THEN "matched" ELSE "version_mismatch")

\* C37: the call leaves both input lists and their items as they were
\* and writes nothing: no request, no history entry, no log or console line.
C37_CallLeavesInputsAndWorld ==
    [][rpc' # rpc =>
          /\ manifestPackages' = manifestPackages
          /\ targetApps' = targetApps
          /\ submitted' = submitted
          /\ history' = history
          /\ emitted' = emitted
          /\ fnCalls' = fnCalls
          /\ UNCHANGED << execVars, pollVars, retryVars, tokenVars, utilVars >>]_vars

\* C37: the value returned is the one the inputs determine, whatever else
\* the state holds
C37_OutputDeterminedByInputs ==
    rpc = "returned" => verdicts = reconcilePackages(manifestPackages, targetApps)

-----------------------------------------------------------------------------
(* Claims about upgradeType, checked under SpecVersion *)

\* the segments of a version, a missing one counting as 0: 1.2 is 1.2.0
Segment(v, k) == IF k \in DOMAIN ParseVersion(v) THEN ParseVersion(v)[k] ELSE 0

\* b is a strictly greater version than a
StrictlyGreater(a, b) ==
    \/ Segment(b, 1) > Segment(a, 1)
    \/ Segment(b, 1) = Segment(a, 1) /\ Segment(b, 2) > Segment(a, 2)
    \/ Segment(b, 1) = Segment(a, 1) /\ Segment(b, 2) = Segment(a, 2)
        /\ Segment(b, 3) > Segment(a, 3)

\* the magnitude C21 states for a pair of versions
Magnitude(a, b) ==
    IF ~StrictlyGreater(a, b) THEN "none"
    ELSE IF Segment(b, 1) > Segment(a, 1) THEN "major"
    ELSE IF Segment(b, 2) > Segment(a, 2) THEN "minor"
    ELSE "patch"

\* C21: upgradeType(a, b) is one of none / patch / minor / major: none when b
\* is not strictly greater than a, else major when the major segment grew,
\* else minor when the minor segment grew, else patch.
C21_UpgradeTypeIsMagnitude ==
    vpc = "returned" =>
        /\ vtype \in {"none", "patch", "minor", "major"}
        /\ vtype = Magnitude(vfrom, vto)

\* the comparison of two versions padded with zeros to three segments
PaddedCompare(a, b) ==
    IF StrictlyGreater(a, b) THEN -1
    ELSE IF StrictlyGreater(b, a) THEN 1
    ELSE 0

\* C34: compareVersions(a, b), for versions of one to three numeric segments,
\* is the comparison of a and b padded with zeros to three segments: '1.2'
\* equals '1.2.0' and is lower than '1.2.1'.
C34_MissingSegmentIsZero ==
    vpc = "compared" => vtype = PaddedCompare(vfrom, vto)

-----------------------------------------------------------------------------
(* Claims about the tool handlers' confirmation gate, checked under SpecGate *)

\* C26: a tool call sends its install or rollback request to the instance
\* only if verifyConfirmation returned valid in that same call, for a token
\* issued for that operation.
C26_RequestOnlyAfterConfirmation ==
    lastCall.submitted =>
        /\ lastCall.verified = "valid"
        /\ handedOut[lastCall.token].operation = lastCall.operation

-----------------------------------------------------------------------------
(* Claims about the confirmation store, checked under SpecConfirm *)

\* this step is a call of verifyConfirmation (the clock stands still during
\* a call, and a call that issues a token verifies nothing)
VerifiesNow == now' = now /\ lastCall'.verified # "none"

\* the value names the host: ' HTTPS://Dev.Service-Now.com/' is
\* dev.service-now.com, prod.service-now.com is not
TypedCorrectly(value, host) == value = sHostTyped /\ host = sHostDev

\* C27: no token has made verifyConfirmation return valid more than once,
\* and a token that did is gone from the store.
C27_AtMostOnceValid ==
    \A t \in DOMAIN validCount :
        /\ validCount[t] <= 1
        /\ validCount[t] = 1 => t \notin DOMAIN challenges

\* C27: a verification of a token that was already verified as valid fails
\* as 'not found or already used'.
C27_LaterVerificationFails ==
    (VerifiesNow /\ lastCall'.token \in DOMAIN validCount
                 /\ validCount[lastCall'.token] = 1) =>
        /\ lastCall'.verified = "not_found"
        /\ validCount' = validCount

\* C27: a confirmation token is single-use: across any sequence of issue and
\* verify calls each token is verified as valid at most once, and every later
\* verification of it fails as not found or already used.
C27_Theorem == []C27_AtMostOnceValid /\ [][C27_LaterVerificationFails]_vars

\* a token verified as valid once was presented again, with the right value
\* and operation, and refused
C27_Witness ==
    /\ lastCall.tool = "verifyConfirmation"
    /\ lastCall.token \in DOMAIN validCount
    /\ validCount[lastCall.token] = 1
    /\ lastCall.verified = "not_found"
    /\ lastCall.value = sHostTyped
    /\ lastCall.operation = handedOut[lastCall.token].operation

\* the last call verified a token later than TOKEN_TTL_MS after its issue
VerifiedPastLifetime ==
    /\ lastCall.verified # "none"
    /\ lastCall.token \in DOMAIN handedOut
    /\ lastCall.at > handedOut[lastCall.token].at + 5 * 60 * 1000

\* C28: a verification made later than five minutes after the token was
\* issued never returns valid, whatever value and operation are given, and
\* the token is no longer in the store after it.
C28_ExpiredNeverValid ==
    VerifiedPastLifetime =>
        /\ lastCall.verified \in {"expired", "not_found"}
        /\ lastCall.token \notin DOMAIN challenges

\* a token is verified past its lifetime with the right value and operation,
\* and is answered 'expired'
C28_Witness ==
    /\ VerifiedPastLifetime
    /\ lastCall.verified = "expired"
    /\ lastCall.value = sHostTyped
    /\ lastCall.operation = handedOut[lastCall.token].operation

\* C29: a verification is only ever valid with the operation the token was
\* issued for (or with no operation given).
C29_ValidOnlyForIssuedOperation ==
    (lastCall.verified = "valid" /\ lastCall.operation # "") =>
        lastCall.operation = handedOut[lastCall.token].operation

\* C29: verifying a token that is in the store and not expired with the other
\* operation type is refused, and verifying it with its own operation type
\* and the correctly typed hostname is valid.
C29_VerifyStep ==
    (VerifiesNow /\ lastCall'.token \in DOMAIN challenges
                 /\ now <= handedOut[lastCall'.token].at + 5 * 60 * 1000) =>
        /\ (lastCall'.operation \in {"install", "rollback"}
              /\ lastCall'.operation # handedOut[lastCall'.token].operation) =>
                 lastCall'.verified \notin {"valid", "none"}
        /\ (lastCall'.operation = handedOut[lastCall'.token].operation
              /\ TypedCorrectly(lastCall'.value, handedOut[lastCall'.token].instanceHost)) =>
                 lastCall'.verified = "valid"

\* C29: a confirmation token is bound to the operation it was issued for:
\* verified with the other operation type it is never valid, verified with
\* its own operation type and the correct hostname it is.
C29_Theorem == []C29_ValidOnlyForIssuedOperation /\ [][C29_VerifyStep]_vars

\* one token was verified as valid with its own operation, and another one,
\* presented with the right hostname but the other operation, was refused
C29_Witness ==
    /\ lastCall.verified = "wrong_operation"
    /\ lastCall.value = sHostTyped
    /\ lastCall.operation \in {"install", "rollback"}
    /\ \E t \in DOMAIN validCount :
          t # lastCall.token /\ validCount[t] = 1

-----------------------------------------------------------------------------
(* Claims about buildManifest, checked under SpecManifest *)

\* the serialization apart from the line of the creation time stamp
SerializedContent(manifest) ==
    SelectSeq(Serialize(manifest), LAMBDA line : line[1] # "metadata.createdAt")

\* no package is followed by one of a smaller scope
SortedByScope(pkgs) ==
    \A j, k \in DOMAIN pkgs : j < k => localeCompare(pkgs[j].scope, pkgs[k].scope) <= 0

\* C30: two plans built from the same set of items, supplied in any two
\* orders, serialize identically (the creation time stamp apart), with the
\* packages sorted by scope.
C30_SameItemsSameManifest ==
    bpc = "built" =>
        /\ SortedByScope(manifests[1].packages)
        /\ SortedByScope(manifests[2].packages)
        /\ SerializedContent(manifests[1]) = SerializedContent(manifests[2])

-----------------------------------------------------------------------------
(* Claims about loading a manifest, checked under SpecLoad *)

\* no two packages of a built manifest have the same scope
BuiltScopesDistinct(manifest) ==
    \A j, k \in DOMAIN manifest.packages :
        j # k => manifest.packages[j].scope # manifest.packages[k].scope

\* no two packages of a parsed plan have the same scope
LoadedScopesDistinct(plan) ==
    \A j, k \in DOMAIN plan.packages.items :
        j # k => Member(plan.packages.items[j], "scope") # Member(plan.packages.items[k], "scope")

\* C31: every manifest built by buildManifest, and every plan that
\* readManifest returns, has pairwise distinct package scopes.
C31_ScopesUnique ==
    /\ \A k \in DOMAIN manifests : BuiltScopesDistinct(manifests[k])
    /\ loadOutcome.kind = "returned" => LoadedScopesDistinct(loadOutcome.value)

\* the rules of a plan, as the loader's contract names them
WrongFormatVersion(plan) == Member(plan, "manifestVersion") # JNum(MANIFEST_VERSION)
\* a member that is there and is a string that is not empty
HasText(item, name) ==
    item.t = "object" /\ name \in DOMAIN item /\ item[name].t = "string" /\ item[name].s # << >>
MissingSourceInstance(plan) == ~HasText(Member(plan, "metadata"), "instance")
PackagesNotArray(plan) == Member(plan, "packages").t # "array"
ItemsMissing(plan, name) ==
    IF PackagesNotArray(plan) THEN {}
    ELSE {k \in DOMAIN plan.packages.items : ~HasText(plan.packages.items[k], name)}
NoRuleViolated(plan) ==
    /\ ~WrongFormatVersion(plan)
    /\ ~MissingSourceInstance(plan)
    /\ ~PackagesNotArray(plan)
    /\ ItemsMissing(plan, "scope") = {}
    /\ ItemsMissing(plan, "sysId") = {}

\* how many pieces of the error message start with a text
CountText(message, text) == Cardinality({k \in DOMAIN message : message[k][1] = text})
OneIf(violated) == IF violated THEN 1 ELSE 0

\* C32: a plan is accepted exactly if no rule is violated; otherwise the one
\* error raised carries one message for each violated rule: the format
\* version, the source instance, packages not being an array, and one per item
\* without scope and one per item without sysId.
C32_AllViolationsReported ==
    (mpc = "done" /\ parsedPlan.t = "object") =>
        /\ loadOutcome.kind = "returned" <=> NoRuleViolated(parsedPlan)
        /\ ~NoRuleViolated(parsedPlan) =>
              /\ loadOutcome.kind = "Error"
              /\ CountText(loadOutcome.message, "Expected manifestVersion ")
                    = OneIf(WrongFormatVersion(parsedPlan))
              /\ CountText(loadOutcome.message, "metadata.instance is required")
                    = OneIf(MissingSourceInstance(parsedPlan))
              /\ CountText(loadOutcome.message, "packages must be an array")
                    = OneIf(PackagesNotArray(parsedPlan))
              /\ CountText(loadOutcome.message, "Package missing scope: ")
                    = Cardinality(ItemsMissing(parsedPlan, "scope"))
              /\ CountText(loadOutcome.message, "Package missing sysId (scope: ")
                    = Cardinality(ItemsMissing(parsedPlan, "sysId"))

-----------------------------------------------------------------------------
(* Claims about the install request, checked under SpecRequest *)

\* the request asks for the demo data to be loaded
CarriesLoadDemoData(req) ==
    IF req.path = "/api/sn_cicd/app_repo/install"
    THEN Member(req.params, "load_demo_data") = JStr(sTrue)
    ELSE \E k \in DOMAIN req.payload.packages.items :
            ~Falsy(Member(req.payload.packages.items[k], "load_demo_data"))

\* C35: an install request carries load_demo_data=true exactly when the
\* manifest item being installed has loadDemoData: true.
C35_DemoDataAsInManifest ==
    qpc = "sent" =>
        (CarriesLoadDemoData(request) <=> Member(qitem, "loadDemoData") = JBool(TRUE))

-----------------------------------------------------------------------------
(* Claims about the end of pollProgress, checked under SpecPollLive *)

PollEnded == ppc \in {"returned", "threw"}

\* a terminal snapshot: a listed terminal status, a status string that parses
\* to the code 2 or 3, or 100 percent
TerminalSnapshot(d) == ListedTerminal(d) \/ StatusOf(d) \in {JStr(sTwo), JStr(sThree)}

\* C38: every run ends
C38_EventuallyEnds == <>PollEnded

\* C38: a run that ended did so by a return after a terminal snapshot, by a
\* failed status check thrown as it is, or by the timeout error, and by one
\* of them only
C38_OneOfThreeWays ==
    /\ ppc = "returned" => (pollErr = NoError /\ lastData # NoData /\ TerminalSnapshot(lastData))
    /\ ppc = "threw" => pollErr.kind \in {"http", "timeout"}
    /\ (ppc = "threw" /\ pollErr.kind = "timeout") => elapsed >= popts.maxPollDuration
    /\ (ppc = "threw" /\ pollErr.kind = "http") => pollErr.status # 429

\* C38: nothing follows the end
C38_EndIsFinal == [][~PollEnded]_vars

\* C38: every pollProgress run eventually ends, by a normal return after a
\* terminal snapshot, by a thrown hard failure or by the timeout error,
\* whatever the server answers, an endless stream of 429 responses or of
\* non-terminal snapshots included, time advancing across the waits.
C38_Theorem == C38_EventuallyEnds /\ []C38_OneOfThreeWays /\ C38_EndIsFinal

\* a run in which no status check was ever answered with a snapshot, the last
\* failure being a 429, ended by the timeout
C38_Witness ==
    /\ ppc = "threw"
    /\ pollErr.kind = "timeout"
    /\ lastData = NoData
    /\ interval # popts.pollInterval

-----------------------------------------------------------------------------
(* Claims about how the sequential executor counts a job, checked under Spec *)

\* a snapshot that is terminal by its percent-complete alone
TerminalByPercentOnly(d) ==
    /\ d # NoData
    /\ PercentOf(d) >= 100
    /\ StatusOf(d) \notin SuccessSignals \cup FailureSignals

\* C39: a job whose final snapshot is terminal only because percent-complete
\* is at least 100, its status being neither a success nor a failure signal,
\* is counted by the sequential executor as a failed item.
C39_FullPercentAloneIsFailure ==
    [][(pc = "seqPolling" /\ ppc = "returned" /\ TerminalByPercentOnly(lastData)) =>
          /\ failed' = failed + 1
          /\ succeeded' = succeeded
          /\ failedPackages' =
                Append(failedPackages, [scope |-> packages[i], error |-> StatusFailure(lastData)])]_vars

\* the first item ended at 100 percent with status 1 (running) and no status
\* message, and was counted as failed
C39_Witness ==
    /\ ~opts.batch
    /\ failed = 1
    /\ succeeded = 0
    /\ Len(failedPackages) = 1
    /\ failedPackages[1].scope = packages[1]
    /\ failedPackages[1].error = StatusFailure(dStuckAt100)

-----------------------------------------------------------------------------
(* Claims about the instance of a confirmed tool call, checked under SpecGate *)

\* C40: a tool call that passed confirmation sends its request to the
\* instance for which its confirmation token was issued; a token issued for
\* one instance's host never authorises a request to another instance.
C40_ConfirmedForSameInstance ==
    (lastCall.submitted /\ lastCall.verified = "valid") =>
        handedOut[lastCall.token].instanceHost = lastCall.instanceHost

=============================================================================
